---- MODULE Spec2Model ----
(***************************************************************************)
(* The AI initiatives inventory: the three-tier document store             *)
(* (backend/document_manager.py), the document and compliance endpoints    *)
(* and the initiative endpoints (backend/app.py), the documents-table      *)
(* migration (backend/migrate_documents.py).                               *)
(*                                                                         *)
(* A path is the sequence of its components, counted from the repository   *)
(* root; a payload is a record of its bytes' identity and their number; a  *)
(* percentage is the exact fraction num/den the float stands for.          *)
(***************************************************************************)
EXTENDS Integers, Sequences, FiniteSets, TLC

\* ------------------------------------------------------------------ bounds
\* rows of the documents table, when every endpoint is exercised
MaxApiDocs == 1
\* rows of the documents table, when compliance is exercised
MaxDocs == 2
\* rows of the document_templates table
MaxTemplates == 1
\* readings the clock gives
MaxClock == 2
MaxStoreFiles == 1
\* largest count handed to the status banding on its own
MaxCount == 10
MaxInitiatives == 4
MaxRequests == 2
MaxMigrators == 2
\* the clock readings that fall in one second
TicksPerSecond == 2

\* ------------------------------------------------------------- constants
ACCESS_TOKEN_EXPIRE_MINUTES == 1440
MAX_FILE_SIZE == 50 * 1024 * 1024

\* SQL NULL / Python None, for a text column, an id column and a path column
NULL == "NULL"
NoId == 0
NoPath == <<>>


\* ------------------------------------------------------------------ paths
UPLOAD_DIR == <<"backend", "..", "uploads">>

Join(a, b) == a \o b

RECURSIVE NormPath(_)
NormPath(p) ==
  IF p = <<>> THEN <<>>
  ELSE LET h == NormPath(SubSeq(p, 1, Len(p) - 1))
           l == p[Len(p)]
       IN IF l = ".." /\ h # <<>> /\ h[Len(h)] # ".."
            THEN SubSeq(h, 1, Len(h) - 1)
            ELSE Append(h, l)

RECURSIVE CommonLen(_, _)
CommonLen(a, b) ==
  IF a = <<>> \/ b = <<>> \/ Head(a) # Head(b) THEN 0
  ELSE 1 + CommonLen(Tail(a), Tail(b))

RelPathAbsolute(path, start) == NormPath(path)

\* os.path.relpath(path, start)
RelPath(path, start) ==
  LET p == NormPath(path)
      s == NormPath(start)
      c == CommonLen(p, s)
  IN [i \in 1..(Len(s) - c) |-> ".."] \o SubSeq(p, c + 1, Len(p))

Prefixes(p) == {SubSeq(p, 1, n) : n \in 0..Len(p)}

IsPrefix(d, p) == Len(d) <= Len(p) /\ SubSeq(p, 1, Len(d)) = d

\* os.makedirs(path, exist_ok=True) on the directory set ds
MakeDirs(ds, path) == ds \cup Prefixes(NormPath(path))

\* the directory the operating system reaches walking p from the root, or
\* <<"?">> when a component on the way is no directory
RECURSIVE Walk(_, _, _)
Walk(ds, cur, p) ==
  IF p = <<>> THEN cur
  ELSE LET nxt == IF Head(p) = ".."
                    THEN (IF cur = <<>> THEN <<>> ELSE SubSeq(cur, 1, Len(cur) - 1))
                    ELSE Append(cur, Head(p))
       IN IF nxt \in ds THEN Walk(ds, nxt, Tail(p)) ELSE <<"?">>

ParentOf(p) == SubSeq(p, 1, Len(p) - 1)

\* open(p, "wb") succeeds when the directory holding the last component exists
CanCreate(ds, p) == p # <<>> /\ Walk(ds, <<>>, ParentOf(p)) # <<"?">>

\* where the file lands
Landing(ds, p) == Append(Walk(ds, <<>>, ParentOf(p)), p[Len(p)])

VARIABLES schema, initiatives, documents, templates, requirements,
          dirs, files, now, response,
          users, user_api_keys, pending, db_file, backups, migrators

\* the users and their keys, the requests under way, and the migration tool's
\* database file, backup files and DatabaseMigrator objects
outside == <<users, user_api_keys, pending, db_file, backups, migrators>>

vars == <<schema, initiatives, documents, templates, requirements,
          dirs, files, now, response, outside>>

\* os.path.exists
Exists(fs, ds, p) ==
  /\ p # <<>>
  /\ Walk(ds, <<>>, ParentOf(p)) # <<"?">>
  /\ (Landing(ds, p) \in DOMAIN fs \/ Landing(ds, p) \in ds)

WriteFile(fs, p, content) ==
  [q \in DOMAIN fs \cup {p} |-> IF q = p THEN content ELSE fs[q]]

\* os.rename away from p
RemoveFile(fs, p) == [q \in DOMAIN fs \ {p} |-> fs[q]]

\* ------------------------------------------------------- document_manager
get_initiative_directories(initiative_id) ==
  LET base_path == Join(UPLOAD_DIR, <<"initiatives", ToString(initiative_id)>>)
      core_path == Join(base_path, <<"core">>)
  IN [base          |-> base_path,
      core          |-> core_path,
      core_required |-> Join(core_path, <<"required">>),
      core_optional |-> Join(core_path, <<"optional">>),
      ancillary     |-> Join(base_path, <<"ancillary">>)]

InitiativeDirsMadeRequiredOnly(ds, initiative_id) ==
  MakeDirs(ds, get_initiative_directories(initiative_id).core_required)

\* the directories after get_initiative_directories has run
InitiativeDirsMade(ds, initiative_id) ==
  LET d == get_initiative_directories(initiative_id)
  IN MakeDirs(MakeDirs(MakeDirs(ds, d.core_required), d.core_optional), d.ancillary)

get_document_path_swapped(library_type, category, initiative_id, is_required) ==
  IF library_type = "admin" THEN
    (IF category = "policy" THEN Join(UPLOAD_DIR, <<"admin", "policies">>)
     ELSE IF category = "template" THEN Join(UPLOAD_DIR, <<"admin", "templates">>)
     ELSE IF category = "howto" THEN Join(UPLOAD_DIR, <<"admin", "howtos">>)
     ELSE Join(UPLOAD_DIR, <<"admin">>))
  ELSE IF library_type = "core" /\ initiative_id # NoId THEN
    (IF is_required THEN get_initiative_directories(initiative_id).core_optional
                    ELSE get_initiative_directories(initiative_id).core_required)
  ELSE IF library_type = "ancillary" /\ initiative_id # NoId THEN
    get_initiative_directories(initiative_id).ancillary
  ELSE UPLOAD_DIR

get_document_path(library_type, category, initiative_id, is_required) ==
  IF library_type = "admin" THEN
    (IF category = "policy" THEN Join(UPLOAD_DIR, <<"admin", "policies">>)
     ELSE IF category = "template" THEN Join(UPLOAD_DIR, <<"admin", "templates">>)
     ELSE IF category = "howto" THEN Join(UPLOAD_DIR, <<"admin", "howtos">>)
     ELSE Join(UPLOAD_DIR, <<"admin">>))
  ELSE IF library_type = "core" /\ initiative_id # NoId THEN
    (IF is_required THEN get_initiative_directories(initiative_id).core_required
                    ELSE get_initiative_directories(initiative_id).core_optional)
  ELSE IF library_type = "ancillary" /\ initiative_id # NoId THEN
    get_initiative_directories(initiative_id).ancillary
  ELSE UPLOAD_DIR

\* the directories after get_document_path has run
DocumentPathDirsMade(ds, library_type, initiative_id) ==
  IF library_type \in {"core", "ancillary"} /\ initiative_id # NoId
    THEN InitiativeDirsMade(ds, initiative_id)
    ELSE ds

UniqueNameUnstamped(t, filename) == filename

\* f"{timestamp}_{filename}": the stamp goes before the name's first component
UniqueName(t, filename) ==
  <<ToString(t) \o "_" \o Head(filename)>> \o Tail(filename)

\* the bytes open(..., "wb") / f.write leave in the file
Written(file_content) == file_content

\* save_document_file: [ok, path, dirs, files]; ok is false when open() raises
save_document_file(fs, ds, t, file_content, filename, library_type, category, initiative_id, is_required) ==
  LET target_dir == get_document_path(library_type, category, initiative_id, is_required)
      ds2 == DocumentPathDirsMade(ds, library_type, initiative_id)
      file_path == Join(target_dir, UniqueName(t, filename))
  IN IF CanCreate(ds2, file_path) /\ Landing(ds2, file_path) \notin ds2
       THEN [ok    |-> TRUE,
             path  |-> RelPath(file_path, UPLOAD_DIR),
             dirs  |-> ds2,
             files |-> WriteFile(fs, Landing(ds2, file_path), Written(file_content))]
       ELSE [ok |-> FALSE, path |-> NoPath, dirs |-> ds2, files |-> fs]

copy_template_file_moving(fs, ds, t, template_path, initiative_id, new_filename, is_required) ==
  LET source_path == Join(UPLOAD_DIR, template_path)
      d == get_initiative_directories(initiative_id)
      ds2 == InitiativeDirsMade(ds, initiative_id)
      target_dir == IF is_required THEN d.core_required ELSE d.core_optional
      target_path == Join(target_dir, UniqueName(t, new_filename))
  IN IF ~Exists(fs, ds, source_path)
       THEN [ok |-> FALSE, path |-> NoPath, dirs |-> ds, files |-> fs]
     ELSE IF /\ Landing(ds, source_path) \in DOMAIN fs
             /\ CanCreate(ds2, target_path)
             /\ Landing(ds2, target_path) \notin ds2
       THEN [ok    |-> TRUE,
             path  |-> RelPath(target_path, UPLOAD_DIR),
             dirs  |-> ds2,
             files |-> RemoveFile(WriteFile(fs, Landing(ds2, target_path),
                                            fs[Landing(ds, source_path)]),
                                  Landing(ds, source_path))]
       ELSE [ok |-> FALSE, path |-> NoPath, dirs |-> ds2, files |-> fs]

\* copy_template_file: [ok, path, dirs, files]; ok is false when the source
\* is absent (FileNotFoundError) or the copy raises
copy_template_file(fs, ds, t, template_path, initiative_id, new_filename, is_required) ==
  LET source_path == Join(UPLOAD_DIR, template_path)
      d == get_initiative_directories(initiative_id)
      ds2 == InitiativeDirsMade(ds, initiative_id)
      target_dir == IF is_required THEN d.core_required ELSE d.core_optional
      target_path == Join(target_dir, UniqueName(t, new_filename))
  IN IF ~Exists(fs, ds, source_path)
       THEN [ok |-> FALSE, path |-> NoPath, dirs |-> ds, files |-> fs]
     ELSE IF /\ Landing(ds, source_path) \in DOMAIN fs
             /\ CanCreate(ds2, target_path)
             /\ Landing(ds2, target_path) \notin ds2
       THEN [ok    |-> TRUE,
             path  |-> RelPath(target_path, UPLOAD_DIR),
             dirs  |-> ds2,
             files |-> WriteFile(fs, Landing(ds2, target_path),
                                 fs[Landing(ds, source_path)])]
       ELSE [ok |-> FALSE, path |-> NoPath, dirs |-> ds2, files |-> fs]

\* strftime("%Y%m%d_%H%M%S"): the reading cut to the second
ArchiveStamp(t) == "s" \o ToString(t \div TicksPerSecond)

delete_document_file_kept(fs, ds, t, relative_path) ==
  LET source_path == Join(UPLOAD_DIR, relative_path)
  IN IF ~Exists(fs, ds, source_path)
       THEN [ok |-> FALSE, dirs |-> ds, files |-> fs]
       ELSE [ok |-> TRUE, dirs |-> MakeDirs(ds, Join(UPLOAD_DIR, <<".archived">>)),
             files |-> fs]

\* delete_document_file: [ok, dirs, files]; shutil.move renames the file onto
\* the archive name, replacing a file that has it
delete_document_file(fs, ds, t, relative_path) ==
  LET source_path == Join(UPLOAD_DIR, relative_path)
      archive_dir == Join(UPLOAD_DIR, <<".archived">>)
      ds2 == MakeDirs(ds, archive_dir)
      filename == relative_path[Len(relative_path)]
      archive_path == Join(archive_dir, <<ArchiveStamp(t) \o "_" \o filename>>)
      source == Landing(ds, source_path)
  IN IF ~Exists(fs, ds, source_path)
       THEN [ok |-> FALSE, dirs |-> ds, files |-> fs]
       ELSE [ok    |-> TRUE,
             dirs  |-> ds2,
             files |-> WriteFile(RemoveFile(fs, source), Landing(ds2, archive_path),
                                 fs[source])]

\* ensure_directory_structure, and the package directory the module lies in
StartupDirs ==
  MakeDirs(MakeDirs(MakeDirs(MakeDirs(MakeDirs({}, <<"backend">>),
    Join(UPLOAD_DIR, <<"admin", "policies">>)),
    Join(UPLOAD_DIR, <<"admin", "templates">>)),
    Join(UPLOAD_DIR, <<"admin", "howtos">>)),
    Join(UPLOAD_DIR, <<"initiatives">>))

\* ---------------------------------------------------------------- database
\* users.last_login of a user who never logged in (the clock starts later)
NoLogin == 0

\* pwd_context.hash / pwd_context.verify
get_password_hash(password) == <<"bcrypt", password>>

verify_password(plain_password, hashed_password) ==
  get_password_hash(plain_password) = hashed_password

\* init_database: the default users, none of whom has logged in
SampleUsers ==
  [username \in {"admin", "reviewer", "contributor"} |->
     [role |-> username,
      hashed_password |-> get_password_hash(CASE username = "admin" -> "admin123"
                                              [] username = "reviewer" -> "review123"
                                              [] username = "contributor" -> "contrib123"),
      last_login |-> NoLogin]]

\* the database file the migration tool works on: whether the file is there,
\* whether initiatives, documents or users hold rows, and which of the tool's
\* scripts have been run on it
LegacyDatabase == [exists |-> TRUE, rows |-> TRUE, scripts |-> <<>>]

InitOutside ==
  /\ users = SampleUsers
  /\ user_api_keys = <<>>
  /\ pending = <<>>
  /\ db_file = LegacyDatabase
  /\ backups = <<>>
  /\ migrators = <<>>

\* init_database: the three sample initiatives (status by the column default)
SampleInitiatives ==
  << [stage |-> "pilot",      priority |-> "high",     status |-> "active", created_at |-> 0, updated_at |-> 0],
     [stage |-> "discovery",  priority |-> "medium",   status |-> "active", created_at |-> 0, updated_at |-> 0],
     [stage |-> "production", priority |-> "critical", status |-> "active", created_at |-> 0, updated_at |-> 0] >>

\* migrate_documents_table, step 7
SampleRequirements ==
  << [name |-> "Business Case",          stage |-> "discovery", is_mandatory |-> TRUE, template_id |-> NoId],
     [name |-> "Technical Architecture", stage |-> "design",    is_mandatory |-> TRUE, template_id |-> NoId],
     [name |-> "Risk Assessment",        stage |-> "discovery", is_mandatory |-> TRUE, template_id |-> NoId],
     [name |-> "Implementation Plan",    stage |-> "build",     is_mandatory |-> TRUE, template_id |-> NoId],
     [name |-> "Go-Live Checklist",      stage |-> "pilot",     is_mandatory |-> TRUE, template_id |-> NoId] >>

\* catalog rows of the other kinds the DocumentRequirement model allows:
\* one for every stage, one that is not mandatory
ExtraRequirements ==
  << [name |-> "Security Review", stage |-> NULL,        is_mandatory |-> TRUE,  template_id |-> NoId],
     [name |-> "Lessons Learned", stage |-> "discovery", is_mandatory |-> FALSE, template_id |-> NoId] >>

\* a row of the documents table written by the pre-migration INSERT
LegacyDocument(initiative_id, filename, file_path, file_size, document_type) ==
  [initiative_id |-> initiative_id, filename |-> filename, file_path |-> file_path,
   file_size |-> file_size, document_type |-> document_type,
   library_type |-> NULL, category |-> NULL, is_required |-> FALSE,
   template_id |-> NoId, status |-> NULL]

NewDocumentNoType(initiative_id, filename, file_path, file_size, document_type, library_type, category, is_required, template_id) ==
  [initiative_id |-> initiative_id, filename |-> filename, file_path |-> file_path,
   file_size |-> file_size, document_type |-> NULL,
   library_type |-> library_type, category |-> category, is_required |-> is_required,
   template_id |-> template_id, status |-> "active"]

\* a row of the migrated documents table; status takes the column default
NewDocument(initiative_id, filename, file_path, file_size, document_type, library_type, category, is_required, template_id) ==
  [initiative_id |-> initiative_id, filename |-> filename, file_path |-> file_path,
   file_size |-> file_size, document_type |-> document_type,
   library_type |-> library_type, category |-> category, is_required |-> is_required,
   template_id |-> template_id, status |-> "active"]

\* step 4 of the migration: every old row becomes an ancillary row
MigratedRowAdmin(d) == [d EXCEPT !.library_type = "admin", !.status = "active"]

MigratedRow(d) ==
  [d EXCEPT !.library_type = "ancillary", !.status = "active"]

\* INSERT INTO documents: the old table has none of the three-tier columns and
\* wants an initiative and a path; the migrated one wants a path and a library type
InsertAccepted(row) ==
  IF schema = "legacy"
    THEN row.library_type = NULL /\ row.initiative_id # NoId /\ row.file_path # NoPath
    ELSE row.library_type # NULL /\ row.file_path # NoPath

Existing(initiative_id) == initiative_id \in DOMAIN initiatives

NoBody == [none |-> TRUE]

Respond(op, code, id, role, body) ==
  [op |-> op, code |-> code, id |-> id, role |-> role, body |-> body]

\* ------------------------------------------------------ compliance evaluator
Truthy(text) == text # NULL /\ text # ""

RequiredDocsAnyStage(stage) ==
  {i \in DOMAIN requirements : requirements[i].is_mandatory}

\* SELECT * FROM document_requirements
\*   WHERE is_mandatory = 1 AND (stage = ? OR stage IS NULL)
RequiredDocs(stage) ==
  {i \in DOMAIN requirements :
     /\ requirements[i].is_mandatory
     /\ \/ (stage # NULL /\ requirements[i].stage = stage)
        \/ requirements[i].stage = NULL}

UploadedDocsAnyTier(initiative_id) ==
  {i \in DOMAIN documents :
     /\ documents[i].initiative_id = initiative_id
     /\ documents[i].status = "active"}

\* SELECT * FROM documents WHERE initiative_id = ? AND library_type = 'core'
\*   AND is_required = 1 AND status = 'active'
UploadedDocs(initiative_id) ==
  {i \in DOMAIN documents :
     /\ documents[i].initiative_id = initiative_id
     /\ documents[i].library_type = "core"
     /\ documents[i].is_required
     /\ documents[i].status = "active"}

UploadedTypes(initiative_id) ==
  {documents[i].document_type : i \in
     {j \in UploadedDocs(initiative_id) : Truthy(documents[j].document_type)}}

RequiredTypes(stage) == {requirements[i].name : i \in RequiredDocs(stage)}

MissingAll(initiative_id, stage) == RequiredTypes(stage)

Missing(initiative_id, stage) == RequiredTypes(stage) \ UploadedTypes(initiative_id)

\* (completed / total_required * 100) if total_required > 0 else 100
Percentage(completed, total_required) ==
  IF total_required > 0 THEN [num |-> completed * 100, den |-> total_required]
                        ELSE [num |-> 100, den |-> 1]

PctEq(p, k) == p.num = k * p.den
PctGe(p, k) == p.num >= k * p.den

\* status = "compliant" if p == 100 else "non-compliant"
\* if p >= 80: status = "mostly-compliant"
\* elif p >= 50: status = "partially-compliant"
StatusOf(p) ==
  LET status == IF PctEq(p, 100) THEN "compliant" ELSE "non-compliant"
  IN IF PctGe(p, 80) THEN "mostly-compliant"
     ELSE IF PctGe(p, 50) THEN "partially-compliant"
     ELSE status

ComplianceResult(initiative_id, total_required, completed, missing) ==
  [initiative_id |-> initiative_id,
   total_required |-> total_required,
   completed |-> completed,
   missing |-> missing,
   compliance_percentage |-> Percentage(completed, total_required),
   status |-> StatusOf(Percentage(completed, total_required))]

\* ---------------------------------------------------------------- handlers
TooLargeInclusive(contents) == contents.size >= MAX_FILE_SIZE

\* len(contents) > MAX_FILE_SIZE
TooLarge(contents) == contents.size > MAX_FILE_SIZE

\* what a handler leaves behind: its response and the tables and store it wrote
Finish(resp, docs, tmpls, fs, ds) ==
  /\ response' = resp
  /\ documents' = docs
  /\ templates' = tmpls
  /\ files' = fs
  /\ dirs' = ds
  /\ UNCHANGED <<schema, initiatives, requirements, now, outside>>

Fail(op, code, id, role) ==
  Finish(Respond(op, code, id, role, NoBody), documents, templates, files, dirs)

\* POST /api/upload
upload_document(initiative_id, document_type, filename, contents) ==
  LET name == <<ToString(initiative_id) \o "_" \o ToString(now) \o "_" \o Head(filename)>>
                \o Tail(filename)
      file_path == Join(UPLOAD_DIR, name)
      row == LegacyDocument(initiative_id, filename, name, contents.size, document_type)
      written == WriteFile(files, Landing(dirs, file_path), Written(contents))
  IN IF ~Existing(initiative_id) THEN Fail("upload_document", 404, initiative_id, NULL)
     ELSE IF TooLarge(contents) THEN Fail("upload_document", 413, initiative_id, NULL)
     ELSE IF ~(CanCreate(dirs, file_path) /\ Landing(dirs, file_path) \notin dirs)
       THEN Fail("upload_document", 500, initiative_id, NULL)
     ELSE IF ~InsertAccepted(row)
       THEN Finish(Respond("upload_document", 500, initiative_id, NULL, NoBody),
                   documents, templates, written, dirs)
     ELSE Finish(Respond("upload_document", 200, initiative_id, NULL,
                         [path |-> name, size |-> contents.size]),
                 Append(documents, row), templates, written, dirs)

\* the part the three library uploads share: save the file, then insert the row
SaveAndInsert(op, initiative_id, role, saved, row, size) ==
  IF ~saved.ok
    THEN Finish(Respond(op, 500, initiative_id, role, NoBody),
                documents, templates, files, saved.dirs)
  ELSE IF ~InsertAccepted(row)
    THEN Finish(Respond(op, 500, initiative_id, role, NoBody),
                documents, templates, saved.files, saved.dirs)
  ELSE Finish(Respond(op, 200, initiative_id, role, [path |-> saved.path, size |-> size]),
              Append(documents, row), templates, saved.files, saved.dirs)

\* POST /api/admin/documents
upload_admin_document(role, category, filename, contents) ==
  LET saved == save_document_file(files, dirs, now, contents, filename,
                                  "admin", category, NoId, FALSE)
      row == NewDocument(NoId, filename, saved.path, contents.size, NULL,
                         "admin", category, FALSE, NoId)
  IN IF role # "admin" THEN Fail("upload_admin_document", 403, NoId, role)
     ELSE IF TooLarge(contents) THEN Fail("upload_admin_document", 413, NoId, role)
     ELSE SaveAndInsert("upload_admin_document", NoId, role, saved, row, contents.size)

\* POST /api/initiatives/{initiative_id}/documents/core
upload_core_document(initiative_id, is_required, document_type, filename, contents) ==
  LET saved == save_document_file(files, dirs, now, contents, filename,
                                  "core", NULL, initiative_id, is_required)
      row == NewDocument(initiative_id, filename, saved.path, contents.size,
                         document_type, "core", NULL, is_required, NoId)
  IN IF ~Existing(initiative_id) THEN Fail("upload_core_document", 404, initiative_id, NULL)
     ELSE IF TooLarge(contents) THEN Fail("upload_core_document", 413, initiative_id, NULL)
     ELSE SaveAndInsert("upload_core_document", initiative_id, NULL, saved, row,
                        contents.size)

upload_ancillary_document_unchecked(initiative_id, document_type, filename, contents) ==
  LET saved == save_document_file(files, dirs, now, contents, filename,
                                  "ancillary", NULL, initiative_id, FALSE)
      row == NewDocument(initiative_id, filename, saved.path, contents.size,
                         document_type, "ancillary", NULL, FALSE, NoId)
  IN IF TooLarge(contents)
       THEN Fail("upload_ancillary_document", 413, initiative_id, NULL)
     ELSE SaveAndInsert("upload_ancillary_document", initiative_id, NULL, saved, row,
                        contents.size)

\* POST /api/initiatives/{initiative_id}/documents/ancillary
upload_ancillary_document(initiative_id, document_type, filename, contents) ==
  LET saved == save_document_file(files, dirs, now, contents, filename,
                                  "ancillary", NULL, initiative_id, FALSE)
      row == NewDocument(initiative_id, filename, saved.path, contents.size,
                         document_type, "ancillary", NULL, FALSE, NoId)
  IN IF ~Existing(initiative_id)
       THEN Fail("upload_ancillary_document", 404, initiative_id, NULL)
     ELSE IF TooLarge(contents)
       THEN Fail("upload_ancillary_document", 413, initiative_id, NULL)
     ELSE SaveAndInsert("upload_ancillary_document", initiative_id, NULL, saved, row,
                        contents.size)

\* a new document_templates row: is_active takes the column default
NewTemplate(name, file_path) == [name |-> name, file_path |-> file_path, is_active |-> TRUE]

\* POST /api/admin/templates
create_document_template(role, name, has_file, filename, contents) ==
  LET saved == save_document_file(files, dirs, now, contents, filename,
                                  "admin", "template", NoId, FALSE)
      fs2 == IF has_file /\ saved.ok THEN saved.files ELSE files
      ds2 == IF has_file THEN saved.dirs ELSE dirs
      file_path == IF has_file THEN saved.path ELSE NoPath
  IN IF role # "admin" THEN Fail("create_document_template", 403, NoId, role)
     ELSE IF has_file /\ TooLarge(contents)
       THEN Fail("create_document_template", 413, NoId, role)
     ELSE IF (has_file /\ ~saved.ok) \/ schema = "legacy"
       THEN Finish(Respond("create_document_template", 500, NoId, role, NoBody),
                   documents, templates, fs2, ds2)
     ELSE Finish(Respond("create_document_template", 200, NoId, role,
                         [path |-> file_path, size |-> contents.size]),
                 documents, Append(templates, NewTemplate(name, file_path)), fs2, ds2)

\* SELECT * FROM document_templates WHERE id = ? AND is_active = 1
ActiveTemplateAny(template_id) == template_id \in DOMAIN templates

ActiveTemplate(template_id) ==
  template_id \in DOMAIN templates /\ templates[template_id].is_active

\* POST /api/initiatives/{initiative_id}/templates/{template_id}/instantiate
instantiate_template(initiative_id, template_id, document_name, is_required) ==
  LET op == "instantiate_template"
      template == templates[template_id]
      has_file == template.file_path # NoPath
      copied == copy_template_file(files, dirs, now, template.file_path, initiative_id,
                                   document_name, is_required)
      relative_path == IF has_file THEN copied.path ELSE NoPath
      fs2 == IF has_file THEN copied.files ELSE files
      ds2 == IF has_file THEN copied.dirs ELSE dirs
      row == NewDocument(initiative_id, document_name, relative_path, 0, NULL,
                         "core", NULL, is_required, template_id)
  IN IF ~Existing(initiative_id) THEN Fail(op, 404, initiative_id, NULL)
     ELSE IF schema = "legacy" THEN Fail(op, 500, initiative_id, NULL)
     ELSE IF ~ActiveTemplate(template_id) THEN Fail(op, 404, initiative_id, NULL)
     ELSE IF (has_file /\ ~copied.ok) \/ ~InsertAccepted(row)
       THEN Finish(Respond(op, 500, initiative_id, NULL, NoBody),
                   documents, templates, fs2, ds2)
     ELSE Finish(Respond(op, 200, initiative_id, NULL,
                         [path |-> relative_path, size |-> 0]),
                 Append(documents, row), templates, fs2, ds2)

\* what the compliance endpoint computes for an initiative of the table
Compliance(initiative_id) ==
  LET stage == initiatives[initiative_id].stage
      total_required == Cardinality(RequiredDocs(stage))
      completed == Cardinality(UploadedDocs(initiative_id))
      missing == Missing(initiative_id, stage)
  IN ComplianceResult(initiative_id, total_required, completed, missing)

\* GET /api/initiatives/{initiative_id}/compliance
check_compliance_status(initiative_id) ==
  LET op == "check_compliance_status"
  IN IF ~Existing(initiative_id) THEN Fail(op, 404, initiative_id, NULL)
     ELSE IF schema = "legacy" THEN Fail(op, 500, initiative_id, NULL)
     ELSE Finish(Respond(op, 200, initiative_id, NULL, Compliance(initiative_id)),
                 documents, templates, files, dirs)

\* the rows of GET /api/initiatives/{initiative_id}/required-documents
RequiredView(initiative_id, stage) ==
  {[name |-> requirements[i].name,
    template_id |-> requirements[i].template_id,
    has_template |-> /\ requirements[i].template_id \in DOMAIN templates
                     /\ templates[requirements[i].template_id].file_path # NoPath,
    is_uploaded |-> requirements[i].name \in UploadedTypes(initiative_id)]
   : i \in RequiredDocs(stage)}

\* GET /api/initiatives/{initiative_id}/required-documents
list_required_documents(initiative_id) ==
  LET op == "list_required_documents"
  IN IF ~Existing(initiative_id) THEN Fail(op, 404, initiative_id, NULL)
     ELSE IF schema = "legacy" THEN Fail(op, 500, initiative_id, NULL)
     ELSE Finish(Respond(op, 200, initiative_id, NULL,
                         [rows |-> RequiredView(initiative_id,
                                                initiatives[initiative_id].stage)]),
                 documents, templates, files, dirs)

\* the column default CURRENT_TIMESTAMP: the clock reading cut to whole seconds
CURRENT_TIMESTAMP(t) == (t \div TicksPerSecond) * TicksPerSecond

\* POST /api/initiatives: any user, the status as sent (active when left out)
create_initiative(role, stage, priority, status) ==
  LET row == [stage |-> stage, priority |-> priority, status |-> status,
              created_at |-> CURRENT_TIMESTAMP(now), updated_at |-> CURRENT_TIMESTAMP(now)]
  IN /\ initiatives' = Append(initiatives, row)
     /\ response' = Respond("create_initiative", 200, Len(initiatives) + 1, role, row)
     /\ UNCHANGED <<schema, documents, templates, requirements, dirs, files, now, outside>>

\* a query or form value that Python takes as true
Given(value) == value # NULL /\ value # ""

SelectedAll(stage, priority, status) == DOMAIN initiatives

\* WHERE 1=1 [AND stage = ?] [AND priority = ?] [AND status = ?]: a filter is
\* left out when its value is absent or empty
Selected(stage, priority, status) ==
  {i \in DOMAIN initiatives :
     /\ Given(stage) => initiatives[i].stage = stage
     /\ Given(priority) => initiatives[i].priority = priority
     /\ Given(status) => initiatives[i].status = status}

\* the place of a priority among the priorities compared as text
TextRank(priority) ==
  CASE priority = "critical" -> 1
    [] priority = "high"     -> 2
    [] priority = "low"      -> 3
    [] priority = "medium"   -> 4

SortKey(i, sort_by) ==
  CASE sort_by = "created_at" -> initiatives[i].created_at
    [] sort_by = "updated_at" -> initiatives[i].updated_at
    [] sort_by = "priority"   -> TextRank(initiatives[i].priority)

\* ORDER BY sort_by ASC|DESC: the rows of S by their key; SQL leaves the order
\* of rows with equal keys open
RECURSIVE Orderings(_, _, _)
Orderings(S, sort_by, sort_order) ==
  IF S = {} THEN {<<>>}
  ELSE LET firsts == {i \in S : \A j \in S :
                        IF sort_order = "asc"
                          THEN SortKey(i, sort_by) <= SortKey(j, sort_by)
                          ELSE SortKey(i, sort_by) >= SortKey(j, sort_by)}
       IN UNION {{<<i>> \o rest : rest \in Orderings(S \ {i}, sort_by, sort_order)} :
                 i \in firsts}

PageUnskipped(rows, skip, limit) ==
  SubSeq(rows, 1, IF limit < Len(rows) THEN limit ELSE Len(rows))

\* LIMIT limit OFFSET skip
Page(rows, skip, limit) ==
  SubSeq(rows, skip + 1, IF skip + limit < Len(rows) THEN skip + limit ELSE Len(rows))

\* GET /api/initiatives: a status absent from the query is 'active'
list_initiatives(stage, priority, status, skip, limit, sort_by, sort_order) ==
  LET filter == IF status = NULL THEN "active" ELSE status
  IN \E rows \in Orderings(Selected(stage, priority, filter), sort_by, sort_order) :
       Finish(Respond("list_initiatives", 200, NoId, NULL,
                      [stage |-> stage, priority |-> priority, status |-> filter,
                       skip |-> skip, limit |-> limit,
                       sort_by |-> sort_by, sort_order |-> sort_order,
                       ids |-> Page(rows, skip, limit)]),
              documents, templates, files, dirs)

\* GET /api/export/csv
export_initiatives_csv ==
  \E rows \in Orderings({i \in DOMAIN initiatives : initiatives[i].status # "deleted"},
                        "created_at", "desc") :
    Finish(Respond("export_initiatives_csv", 200, NoId, NULL, [ids |-> rows]),
           documents, templates, files, dirs)

\* GET /api/initiatives/{initiative_id}
get_initiative(initiative_id) ==
  IF ~Existing(initiative_id) THEN Fail("get_initiative", 404, initiative_id, NULL)
  ELSE Finish(Respond("get_initiative", 200, initiative_id, NULL,
                      initiatives[initiative_id]),
              documents, templates, files, dirs)

\* the row after UPDATE initiatives SET <the fields given and not None>
PatchedKeepingStamp(row, patch, t) ==
  [stage      |-> IF patch.stage # NULL THEN patch.stage ELSE row.stage,
   priority   |-> IF patch.priority # NULL THEN patch.priority ELSE row.priority,
   status     |-> IF patch.status # NULL THEN patch.status ELSE row.status,
   created_at |-> row.created_at,
   updated_at |-> row.updated_at]

Patched(row, patch, t) ==
  [stage      |-> IF patch.stage # NULL THEN patch.stage ELSE row.stage,
   priority   |-> IF patch.priority # NULL THEN patch.priority ELSE row.priority,
   status     |-> IF patch.status # NULL THEN patch.status ELSE row.status,
   created_at |-> row.created_at,
   updated_at |-> IF patch.stage # NULL \/ patch.priority # NULL \/ patch.status # NULL
                    THEN t ELSE row.updated_at]

\* PUT /api/initiatives/{initiative_id}
update_initiative(role, initiative_id, patch) ==
  IF ~Existing(initiative_id) THEN Fail("update_initiative", 404, initiative_id, role)
  ELSE /\ initiatives' = [initiatives EXCEPT
                            ![initiative_id] = Patched(initiatives[initiative_id], patch, now)]
       /\ response' = Respond("update_initiative", 200, initiative_id, role,
                              Patched(initiatives[initiative_id], patch, now))
       /\ UNCHANGED <<schema, documents, templates, requirements, dirs, files, now, outside>>

\* DELETE /api/initiatives/{initiative_id}
delete_initiative(role, initiative_id) ==
  IF role # "admin" THEN Fail("delete_initiative", 403, initiative_id, role)
  ELSE IF ~Existing(initiative_id) THEN Fail("delete_initiative", 404, initiative_id, role)
  ELSE /\ initiatives' = [initiatives EXCEPT ![initiative_id].status = "deleted",
                                             ![initiative_id].updated_at = now]
       /\ response' = Respond("delete_initiative", 200, initiative_id, role, NoBody)
       /\ UNCHANGED <<schema, documents, templates, requirements, dirs, files, now, outside>>

\* migrate_documents_table: nothing when the new columns are there already
migrate_documents_table ==
  /\ response' = Respond("migrate_documents_table", 0, NoId, NULL, NoBody)
  /\ IF schema = "three_tier"
       THEN UNCHANGED <<schema, documents, requirements>>
       ELSE /\ schema' = "three_tier"
            /\ documents' = [i \in DOMAIN documents |-> MigratedRow(documents[i])]
            /\ requirements' = requirements \o SampleRequirements
  /\ UNCHANGED <<initiatives, templates, dirs, files, now, outside>>

\* datetime.utcnow() gives a later reading
Tick ==
  /\ now < MaxClock
  /\ now' = now + 1
  /\ response' = Respond("tick", 0, NoId, NULL, NoBody)
  /\ UNCHANGED <<schema, initiatives, documents, templates, requirements, dirs, files, outside>>

\* ------------------------------------------------------------ specifications
Small == [data |-> "a", size |-> 1]
AtLimit == [data |-> "b", size |-> MAX_FILE_SIZE]
OverLimit == [data |-> "c", size |-> MAX_FILE_SIZE + 1]

Plain == <<"a.txt">>
FileNames == {Plain, <<"..", "a.txt">>}

\* an initiative of the table (the discovery sample) and the first id past it
ApiIds == {Len(initiatives) - 1, Len(initiatives) + 1}

\* the database after init_database, the store after the application's start
Init ==
  /\ schema = "legacy"
  /\ initiatives = SampleInitiatives
  /\ documents = <<>>
  /\ templates = <<>>
  /\ requirements = <<>>
  /\ dirs = StartupDirs
  /\ files = <<>>
  /\ now = 1
  /\ InitOutside
  /\ response = Respond("start", 0, NoId, NULL, NoBody)

\* a step that keeps the tables and the store within n documents
Within(n, step) ==
  /\ step
  /\ Len(documents') <= n
  /\ Len(templates') <= MaxTemplates
  /\ Cardinality(DOMAIN files') <= n + MaxTemplates

\* every endpoint and the migration, each on few inputs
Next ==
  \/ \E i \in ApiIds : Within(MaxApiDocs, upload_document(i, NULL, Plain, Small))
  \/ \E r \in {"admin", "contributor"} :
       Within(MaxApiDocs, upload_admin_document(r, "policy", Plain, Small))
  \/ \E i \in ApiIds :
       Within(MaxApiDocs, upload_core_document(i, TRUE, "Business Case", Plain, Small))
  \/ \E i \in ApiIds :
       Within(MaxApiDocs, upload_ancillary_document(i, NULL, Plain, Small))
  \/ \E r \in {"admin", "contributor"} :
       Within(MaxApiDocs, create_document_template(r, "Business Case", TRUE, Plain, Small))
  \/ \E i \in ApiIds, t \in 1..(Len(templates) + 1) :
       Within(MaxApiDocs, instantiate_template(i, t, Plain, TRUE))
  \/ \E i \in ApiIds : check_compliance_status(i)
  \/ \E i \in ApiIds : list_required_documents(i)
  \/ \E i \in ApiIds : get_initiative(i)
  \/ \E i \in ApiIds : update_initiative("contributor", i, [stage |-> "pilot", priority |-> NULL, status |-> NULL])
  \/ \E r \in {"admin", "contributor"}, i \in ApiIds : delete_initiative(r, i)
  \/ migrate_documents_table

Spec == Init /\ [][Next]_vars

\* --------------------------------------------------- compliance on its own
\* the migrated database, its catalog the migration's or a wider one
InitCompliance ==
  /\ schema = "three_tier"
  /\ initiatives = SampleInitiatives
  /\ documents = <<>>
  /\ templates = <<>>
  /\ requirements \in {SampleRequirements, SampleRequirements \o ExtraRequirements}
  /\ dirs = StartupDirs
  /\ files = <<>>
  /\ now = 1
  /\ InitOutside
  /\ response = Respond("start", 0, NoId, NULL, NoBody)

\* the discovery and the production sample
ComplianceIds == {2, 3}

\* core uploads: <<initiative, is_required, document_type>>
CoreUploads ==
  {<<2, TRUE, "Business Case">>, <<2, TRUE, "Risk Assessment">>, <<2, TRUE, NULL>>,
   <<2, TRUE, "">>, <<2, FALSE, "Business Case">>, <<3, TRUE, "Business Case">>}

NextCompliance ==
  \/ \E u \in CoreUploads :
       Within(MaxDocs, upload_core_document(u[1], u[2], u[3], Plain, Small))
  \/ Within(MaxDocs, upload_ancillary_document(2, "Business Case", Plain, Small))
  \/ Within(MaxDocs, upload_admin_document("admin", "policy", Plain, Small))
  \/ Within(MaxDocs, create_document_template("admin", "Risk Assessment", TRUE, Plain, Small))
  \/ Within(MaxDocs, instantiate_template(2, 1, Plain, TRUE))
  \/ \E g \in {"pilot", "discovery"} : update_initiative("contributor", 2, [stage |-> g, priority |-> NULL, status |-> NULL])
  \/ \E i \in ComplianceIds : check_compliance_status(i)

SpecCompliance == InitCompliance /\ [][NextCompliance]_vars

\* ------------------------------------------------ the banding on its own
\* a pair of counts, not yet banded
InitBanding ==
  /\ schema = "three_tier"
  /\ initiatives = SampleInitiatives
  /\ documents = <<>>
  /\ templates = <<>>
  /\ requirements = SampleRequirements
  /\ dirs = StartupDirs
  /\ files = <<>>
  /\ now = 1
  /\ InitOutside
  /\ \E completed \in 0..MaxCount, total_required \in 0..MaxCount :
       response = Respond("counts", 0, NoId, NULL,
                          [completed |-> completed, total_required |-> total_required])

\* the percentage and the status the endpoint computes from the two counts
band_counts ==
  /\ response.op = "counts"
  /\ response' = Respond("band_counts", 200, NoId, NULL,
                         ComplianceResult(NoId, response.body.total_required,
                                          response.body.completed, {}))
  /\ UNCHANGED <<schema, initiatives, documents, templates, requirements, dirs, files, now, outside>>

NextBanding == band_counts

SpecBanding == InitBanding /\ [][NextBanding]_vars

\* ------------------------------------------------------ uploads on their own
UploadPayloads == {AtLimit, OverLimit}

\* the upload specification keeps the store as small as the tables
UploadWithin(step) ==
  /\ Within(MaxApiDocs, step)
  /\ Cardinality(DOMAIN files') <= MaxApiDocs

NextUpload ==
  \/ \E i \in ApiIds, c \in UploadPayloads :
       UploadWithin(upload_document(i, NULL, Plain, c))
  \/ \E r \in {"admin", "contributor"}, c \in UploadPayloads :
       UploadWithin(upload_admin_document(r, "howto", Plain, c))
  \/ \E i \in ApiIds, c \in UploadPayloads :
       UploadWithin(upload_core_document(i, FALSE, NULL, Plain, c))
  \/ \E i \in ApiIds, c \in UploadPayloads :
       UploadWithin(upload_ancillary_document(i, NULL, Plain, c))
  \/ \E r \in {"admin", "contributor"}, h \in BOOLEAN, c \in UploadPayloads :
       UploadWithin(create_document_template(r, "Business Case", h, Plain, c))
  \/ migrate_documents_table
  \/ Tick

SpecUpload == Init /\ [][NextUpload]_vars

\* ---------------------------------------------------- the store on its own
LibraryTypes == {"admin", "core", "ancillary", "other"}
Categories == {"policy", NULL}
StorePayloads == {Small, [data |-> "other", size |-> 2]}

\* save_document_file called as it stands
call_save_document_file(file_content, filename, library_type, category, initiative_id, is_required) ==
  LET saved == save_document_file(files, dirs, now, file_content, filename,
                                  library_type, category, initiative_id, is_required)
  IN /\ files' = saved.files
     /\ dirs' = saved.dirs
     /\ response' = Respond("save_document_file", IF saved.ok THEN 200 ELSE 500,
                            initiative_id, NULL,
                            [path |-> saved.path, file_content |-> file_content,
                             library_type |-> library_type, category |-> category,
                             is_required |-> is_required])
     /\ UNCHANGED <<schema, initiatives, documents, templates, requirements, now, outside>>

NextStore ==
  \E c \in StorePayloads, f \in FileNames, l \in LibraryTypes, g \in Categories,
     i \in {NoId, 2}, q \in BOOLEAN :
    /\ call_save_document_file(c, f, l, g, i, q)
    /\ Cardinality(DOMAIN files') <= MaxStoreFiles

SpecStore == Init /\ [][NextStore]_vars

\* ------------------------------------------------- the resolver on its own
ResolverCategories == {"policy", "template", "howto", "other", NULL}
ResolverIds == {NoId, 2, 3}

\* get_document_path called as it stands
call_get_document_path(library_type, category, initiative_id, is_required) ==
  /\ dirs' = DocumentPathDirsMade(dirs, library_type, initiative_id)
  /\ response' = Respond("get_document_path", 200, initiative_id, NULL,
                         [path |-> get_document_path(library_type, category,
                                                     initiative_id, is_required),
                          library_type |-> library_type, category |-> category,
                          is_required |-> is_required])
  /\ UNCHANGED <<schema, initiatives, documents, templates, requirements, files, now, outside>>

NextResolver ==
  \/ \E l \in LibraryTypes, g \in ResolverCategories, i \in ResolverIds, q \in BOOLEAN :
       call_get_document_path(l, g, i, q)
  \/ \E c \in StorePayloads, l \in {"core", "ancillary"}, i \in ResolverIds :
       /\ call_save_document_file(c, Plain, l, NULL, i, TRUE)
       /\ Cardinality(DOMAIN files') <= MaxStoreFiles

SpecResolver == Init /\ [][NextResolver]_vars

\* ------------------------------------------- templates, copies and archive
\* copy_template_file called as it stands
call_copy_template_file(template_path, initiative_id, new_filename, is_required) ==
  LET copied == copy_template_file(files, dirs, now, template_path, initiative_id,
                                   new_filename, is_required)
  IN /\ files' = copied.files
     /\ dirs' = copied.dirs
     /\ response' = Respond("copy_template_file", IF copied.ok THEN 200 ELSE 500,
                            initiative_id, NULL,
                            [path |-> copied.path, template_path |-> template_path,
                             is_required |-> is_required])
     /\ UNCHANGED <<schema, initiatives, documents, templates, requirements, now, outside>>

\* delete_document_file called as it stands
call_delete_document_file(relative_path) ==
  LET archived == delete_document_file(files, dirs, now, relative_path)
  IN /\ files' = archived.files
     /\ dirs' = archived.dirs
     /\ response' = Respond("delete_document_file", 200, NoId, NULL,
                            [path |-> relative_path, result |-> archived.ok])
     /\ UNCHANGED <<schema, initiatives, documents, templates, requirements, now, outside>>

\* the relative path save_document_file gives a template file stamped at t
TemplatePath(t) == <<"admin", "templates">> \o UniqueName(t, Plain)
TemplatePaths == {TemplatePath(t) : t \in 1..MaxClock}

\* the relative paths of the documents in the store, the archive left out
StoredPaths ==
  {SubSeq(p, 2, Len(p)) : p \in {q \in DOMAIN files : q[2] # ".archived"}}

\* the migrated database with the migration's catalog
InitMigrated ==
  /\ schema = "three_tier"
  /\ initiatives = SampleInitiatives
  /\ documents = <<>>
  /\ templates = <<>>
  /\ requirements = SampleRequirements
  /\ dirs = StartupDirs
  /\ files = <<>>
  /\ now = 1
  /\ InitOutside
  /\ response = Respond("start", 0, NoId, NULL, NoBody)

CopyWithin(step) ==
  /\ step
  /\ Len(documents') <= MaxDocs
  /\ Cardinality(DOMAIN files') <= MaxDocs + 1

NextCopy ==
  \/ \E c \in StorePayloads :
       CopyWithin(upload_admin_document("admin", "template", Plain, c))
  \/ \E p \in TemplatePaths, i \in {2, 3}, q \in BOOLEAN :
       CopyWithin(call_copy_template_file(p, i, Plain, q))
  \/ \E p \in TemplatePaths \cup StoredPaths :
       CopyWithin(call_delete_document_file(p))

SpecCopy == InitMigrated /\ [][NextCopy]_vars

\* ------------------------------------------------ instantiation on its own
\* a template taken out of use: its is_active flag cleared in the table
deactivate_template(template_id) ==
  /\ template_id \in DOMAIN templates
  /\ templates[template_id].is_active
  /\ templates' = [templates EXCEPT ![template_id].is_active = FALSE]
  /\ response' = Respond("deactivate_template", 0, NoId, NULL, NoBody)
  /\ UNCHANGED <<schema, initiatives, documents, requirements, dirs, files, now, outside>>

\* the stored paths of the templates that have one
TemplateFiles ==
  {templates[t].file_path : t \in {u \in DOMAIN templates : templates[u].file_path # NoPath}}

\* the initiative the templates are instantiated for (the discovery sample)
InstantiateIds == {2}

NextInstantiate ==
  \/ \E h \in BOOLEAN, c \in StorePayloads :
       Within(MaxDocs, create_document_template("admin", "Business Case", h, Plain, c))
  \/ \E i \in InstantiateIds, t \in 1..(Len(templates) + 1), n \in FileNames, q \in BOOLEAN :
       Within(MaxDocs, instantiate_template(i, t, n, q))
  \/ \E p \in TemplateFiles : Within(MaxDocs, call_delete_document_file(p))
  \/ \E t \in DOMAIN templates : deactivate_template(t)

SpecInstantiate == InitMigrated /\ [][NextInstantiate]_vars

\* --------------------------------------------------- initiatives on their own
\* a sample initiative and the first one created
InitiativeIds == {2, Len(SampleInitiatives) + 1}

Statuses == {"active", "paused", "deleted"}

NextInitiatives ==
  \/ \E r \in {"admin", "contributor"}, s \in {"active", "deleted"} :
       /\ Len(initiatives) < MaxInitiatives
       /\ create_initiative(r, "discovery", "low", s)
  \/ \E r \in {"admin", "contributor"}, i \in InitiativeIds, s \in Statuses :
       update_initiative(r, i, [stage |-> NULL, priority |-> NULL, status |-> s])
  \/ \E r \in {"admin", "contributor"}, i \in InitiativeIds : delete_initiative(r, i)
  \/ \E i \in InitiativeIds : get_initiative(i)
  \/ \E s \in {NULL, "deleted", ""}, skip \in {0, 1}, limit \in {1, 100} :
       list_initiatives(NULL, NULL, s, skip, limit, "created_at", "desc")
  \/ export_initiatives_csv

SpecInitiatives == Init /\ [][NextInitiatives]_vars

\* ------------------------------------------------------ updates on their own
\* bodies of PUT: each field given or left out
Patches ==
  [stage : {NULL, "pilot"}, priority : {NULL, "high"}, status : {NULL, "paused", "active"}]

UpdateIds == {2, Len(SampleInitiatives) + 1}

NextUpdate ==
  \/ \E i \in UpdateIds, patch \in Patches : update_initiative("contributor", i, patch)
  \/ \E i \in UpdateIds : delete_initiative("admin", i)
  \/ /\ Len(initiatives) < MaxInitiatives
     /\ create_initiative("contributor", "discovery", "low", "active")
  \/ Tick

SpecUpdate == Init /\ [][NextUpdate]_vars

\* ------------------------------------------------------ listing on its own
\* stage, priority and status of the query: absent, empty or a value
ListFilters ==
  {<<NULL, NULL, NULL>>, <<"discovery", NULL, NULL>>, <<NULL, "high", "deleted">>,
   <<NULL, "", "">>}

\* skip and limit
ListWindows == {<<0, 2>>, <<1, 1>>}

\* sort_by and sort_order
ListSorts == {<<"created_at", "desc">>, <<"updated_at", "asc">>, <<"priority", "asc">>}

NextListing ==
  \/ \E s \in {"active", "deleted"} :
       /\ Len(initiatives) < MaxInitiatives
       /\ create_initiative("contributor", "discovery", "high", s)
  \/ delete_initiative("admin", 2)
  \/ \E q \in ListFilters, w \in ListWindows, o \in ListSorts :
       list_initiatives(q[1], q[2], q[3], w[1], w[2], o[1], o[2])
  \/ Tick

SpecListing == Init /\ [][NextListing]_vars

\* ---------------------------------------------- required documents on their own
\* a requirement given its template: document_requirements.template_id set
link_requirement_template(requirement_id, template_id) ==
  /\ requirement_id \in DOMAIN requirements
  /\ template_id \in DOMAIN templates
  /\ requirements[requirement_id].template_id = NoId
  /\ requirements' = [requirements EXCEPT ![requirement_id].template_id = template_id]
  /\ response' = Respond("link_requirement_template", 0, NoId, NULL, NoBody)
  /\ UNCHANGED <<schema, initiatives, documents, templates, dirs, files, now, outside>>

NextRequired ==
  \/ \E h \in BOOLEAN :
       Within(MaxApiDocs, create_document_template("admin", "Business Case", h, Plain, Small))
  \/ \E r \in {1, 3}, t \in DOMAIN templates : link_requirement_template(r, t)
  \/ \E q \in BOOLEAN, dt \in {"Business Case", "Risk Assessment", NULL} :
       Within(MaxApiDocs, upload_core_document(2, q, dt, Plain, Small))
  \/ \E i \in ComplianceIds : list_required_documents(i)
  \/ \E i \in ComplianceIds : check_compliance_status(i)

SpecRequired == InitMigrated /\ [][NextRequired]_vars

\* ------------------------------------------------------------ authentication
SECRET_KEY == "your-secret-key-here-change-in-production"

\* the life of a token in clock readings
TokenLife == ACCESS_TOKEN_EXPIRE_MINUTES * 60 * TicksPerSecond

\* jwt.encode: the claims and the key they are signed with
create_access_token(username, role, t) ==
  [form |-> "jwt", sub |-> username, role |-> role, exp |-> t + TokenLife,
   key |-> SECRET_KEY]

\* a request without an Authorization header, and one whose bearer is no JWT
NoToken == [form |-> "none", sub |-> NULL, role |-> NULL, exp |-> 0, key |-> NULL]
Garbage == [form |-> "garbage", sub |-> NULL, role |-> NULL, exp |-> 0, key |-> NULL]

\* jwt.decode raises JWTError: nothing that parses, another key, or expired
JWTError(token, t) ==
  \/ token.form # "jwt"
  \/ token.key # SECRET_KEY
  \/ token.exp < t

get_current_user_unverified(token, t) ==
  IF token.form = "none" THEN NULL
  ELSE IF token.form # "jwt" THEN NULL
  ELSE IF token.sub = NULL THEN NULL
  ELSE IF token.sub \notin DOMAIN users THEN NULL
  ELSE token.sub

\* the username the token stands for, NULL where the dependency raises 401
get_current_user(token, t) ==
  IF token.form = "none" THEN NULL
  ELSE IF JWTError(token, t) THEN NULL
  ELSE IF token.sub = NULL THEN NULL
  ELSE IF token.sub \notin DOMAIN users THEN NULL
  ELSE token.sub

\* POST /api/auth/login
login(username, password) ==
  IF \/ username \notin DOMAIN users
     \/ ~verify_password(password, users[username].hashed_password)
    THEN /\ response' = Respond("login", 401, NoId, NULL, NoBody)
         /\ UNCHANGED <<schema, initiatives, documents, templates, requirements,
                        dirs, files, now, outside>>
    ELSE /\ users' = [users EXCEPT ![username].last_login = now]
         /\ response' = Respond("login", 200, NoId, users[username].role,
                                [access_token |-> create_access_token(
                                                    username, users[username].role, now)])
         /\ UNCHANGED <<schema, initiatives, documents, templates, requirements,
                        dirs, files, now,
                        user_api_keys, pending, db_file, backups, migrators>>

\* GET /api/auth/me
read_users_me(role) ==
  Finish(Respond("read_users_me", 200, NoId, role, NoBody),
         documents, templates, files, dirs)

\* the endpoints behind Depends(get_current_active_user) or
\* Depends(require_role("admin")), a few of them
AuthEndpoints ==
  {"read_users_me", "update_initiative", "delete_initiative", "upload_admin_document"}

\* a request with its bearer token: the dependency first, then the handler
api_request(token, endpoint) ==
  LET username == get_current_user(token, now)
      role == users[username].role
  IN IF username = NULL THEN Fail(endpoint, 401, NoId, NULL)
     ELSE CASE endpoint = "read_users_me" -> read_users_me(role)
            [] endpoint = "update_initiative" ->
                 update_initiative(role, 2, [stage |-> "pilot", priority |-> NULL,
                                             status |-> NULL])
            [] endpoint = "delete_initiative" -> delete_initiative(role, 2)
            [] endpoint = "upload_admin_document" ->
                 Within(MaxApiDocs, upload_admin_document(role, "policy", Plain, Small))

\* --------------------------------------------------- authentication on its own
\* the tokens login has issued and the client may still hold
IssuedTokens ==
  {create_access_token(u, users[u].role, users[u].last_login) :
     u \in {v \in DOMAIN users : users[v].last_login # NoLogin}}

\* no token, something that is no JWT, and claims signed with another key
ForeignTokens ==
  {NoToken, Garbage,
   [form |-> "jwt", sub |-> "admin", role |-> "admin", exp |-> TokenLife,
    key |-> "another-key"]}

Logins ==
  {<<"admin", "admin123">>, <<"admin", "contrib123">>, <<"contributor", "contrib123">>,
   <<"nobody", "admin123">>}

NextAuth ==
  \/ \E l \in Logins : login(l[1], l[2])
  \/ \E token \in IssuedTokens \cup ForeignTokens, endpoint \in AuthEndpoints :
       api_request(token, endpoint)
  \/ Tick

SpecAuth == InitMigrated /\ [][NextAuth]_vars

\* ------------------------------------------------------------- properties
\* the requirements that apply to an initiative: mandatory, and for its
\* current stage or for every stage
Applicable(initiative_id) ==
  {i \in DOMAIN requirements :
     /\ requirements[i].is_mandatory = TRUE
     /\ requirements[i].stage \in {initiatives[initiative_id].stage, NULL}}

ApplicableNames(initiative_id) ==
  {requirements[i].name : i \in Applicable(initiative_id)}

\* the documents that count for an initiative: its own, core, required, active
Qualifying(initiative_id) ==
  {i \in DOMAIN documents :
     documents[i] \in [initiative_id : {initiative_id}, library_type : {"core"},
                       is_required : {TRUE}, status : {"active"},
                       filename : {documents[i].filename},
                       file_path : {documents[i].file_path},
                       file_size : {documents[i].file_size},
                       document_type : {documents[i].document_type},
                       category : {documents[i].category},
                       template_id : {documents[i].template_id}]}

QualifyingTypes(initiative_id) ==
  {documents[i].document_type : i \in Qualifying(initiative_id)}

\* the applicable requirements some qualifying document is typed as
Satisfied(initiative_id) ==
  {i \in Applicable(initiative_id) :
     requirements[i].name \in QualifyingTypes(initiative_id)}

\* the bands as the specification words them: the first that matches
StatusFirstMatch(p) ==
  IF PctEq(p, 100) THEN "compliant"
  ELSE IF PctGe(p, 80) THEN "mostly-compliant"
  ELSE IF PctGe(p, 50) THEN "partially-compliant"
  ELSE "non-compliant"

\* the last request was a compliance check that answered
Checked == response.op = "check_compliance_status" /\ response.code = 200

\* C1: for every pair (completed, total_required) the status is the first band
\* that matches the percentage: 100 compliant, at least 80 mostly-compliant,
\* at least 50 partially-compliant, anything else non-compliant
C1_FirstMatchingBand ==
  response.op = "band_counts" =>
    response.body.status = StatusFirstMatch(response.body.compliance_percentage)

\* C2: a check of an initiative with no applicable requirement answers
\* percentage 100 and status compliant
C2_NothingRequired ==
  (Checked /\ response.body.total_required = 0) =>
    /\ PctEq(response.body.compliance_percentage, 100)
    /\ response.body.status = "compliant"

\* C3: a check of an initiative with at least one applicable requirement and no
\* active core-required document answers completed 0, every applicable name
\* missing, percentage 0 and non-compliant; with the sample catalog and a
\* discovery-stage initiative that is 2 required and both names missing
C3_NoDocuments ==
  \A i \in DOMAIN initiatives :
    (Checked /\ response.id = i /\ Applicable(i) # {} /\ Qualifying(i) = {}) =>
      /\ response.body.completed = 0
      /\ response.body.missing = ApplicableNames(i)
      /\ PctEq(response.body.compliance_percentage, 0)
      /\ response.body.status = "non-compliant"
      /\ (requirements = SampleRequirements /\ initiatives[i].stage = "discovery") =>
           /\ response.body.total_required = 2
           /\ response.body.missing = {"Business Case", "Risk Assessment"}

C3_Witness ==
  /\ Checked
  /\ response.id = 2
  /\ initiatives[2].stage = "discovery"
  /\ requirements = SampleRequirements
  /\ Qualifying(2) = {}
  /\ Len(documents) > 0
  /\ response.body.total_required = 2
  /\ response.body.completed = 0
  /\ response.body.status = "non-compliant"

\* C4: when exactly two requirements apply and no document qualifies, one
\* successful core upload marked required and typed as one of the two names
\* makes the check answer completed 1, the other name missing, percentage 50
\* and partially-compliant
C4_OneOfTwo ==
  [][\A i \in ComplianceIds : \A name \in ApplicableNames(i) :
       ( /\ Cardinality(Applicable(i)) = 2
         /\ Cardinality(ApplicableNames(i)) = 2
         /\ Qualifying(i) = {}
         /\ upload_core_document(i, TRUE, name, Plain, Small)
         /\ response'.code = 200 )
       => /\ Compliance(i)'.completed = 1
          /\ Compliance(i)'.missing = ApplicableNames(i) \ {name}
          /\ Cardinality(Compliance(i)'.missing) = 1
          /\ PctEq(Compliance(i)'.compliance_percentage, 50)
          /\ Compliance(i)'.status = "partially-compliant"]_vars

C4_Witness ==
  /\ Checked
  /\ response.id = 2
  /\ Cardinality(Applicable(2)) = 2
  /\ Len(documents) = 1
  /\ documents[1].document_type = "Business Case"
  /\ Qualifying(2) = {1}
  /\ response.body.completed = 1
  /\ response.body.missing = {"Risk Assessment"}
  /\ PctEq(response.body.compliance_percentage, 50)
  /\ response.body.status = "partially-compliant"

\* C5: the missing list of a check holds no name that an active core-required
\* document of the initiative is typed as, and holds every applicable name that
\* no such document is typed as
C5_MissingList ==
  \A i \in DOMAIN initiatives :
    (Checked /\ response.id = i) =>
      /\ response.body.missing \cap QualifyingTypes(i) = {}
      /\ \A name \in ApplicableNames(i) :
           name \notin QualifyingTypes(i) => name \in response.body.missing

C5_Witness ==
  /\ Checked
  /\ response.id = 2
  /\ QualifyingTypes(2) \cap ApplicableNames(2) # {}
  /\ ApplicableNames(2) \ QualifyingTypes(2) # {}
  /\ response.body.missing = ApplicableNames(2) \ QualifyingTypes(2)
  /\ \E d \in Qualifying(2) : ~Truthy(documents[d].document_type)

\* C6: when something is required, the percentage of a check is 100 times the
\* number of satisfied requirements over total_required, lies between 0 and
\* 100, and is 100 exactly when the missing list is empty
C6_SatisfiedRatio ==
  \A i \in DOMAIN initiatives :
    (Checked /\ response.id = i /\ response.body.total_required > 0) =>
      LET p == response.body.compliance_percentage
      IN /\ p.num * response.body.total_required
              = 100 * Cardinality(Satisfied(i)) * p.den
         /\ PctGe(p, 0)
         /\ p.num <= 100 * p.den
         /\ PctEq(p, 100) <=> response.body.missing = {}

\* C7: total_required of a check is the number of mandatory requirements whose
\* stage is the initiative's current stage or null, and completed is the number
\* of documents of that initiative that are core, required and active; no other
\* row counts, and the stage an update stored is the one the next check uses
C7_Counts ==
  \A i \in DOMAIN initiatives :
    (Checked /\ response.id = i) =>
      /\ response.body.total_required = Cardinality(Applicable(i))
      /\ response.body.completed = Cardinality(Qualifying(i))

C7_Witness ==
  /\ Checked
  /\ response.id = 2
  /\ initiatives[2].stage = "pilot"
  /\ requirements = SampleRequirements \o ExtraRequirements
  /\ response.body.total_required = 2
  /\ response.body.completed = 1
  /\ Len(documents) = 2
  /\ \E d \in DOMAIN documents : documents[d].initiative_id = 2 /\ d \notin Qualifying(2)

\* the tables and the store
Stored == <<schema, initiatives, documents, templates, requirements, dirs, files>>

InitiativeOps ==
  {"upload_document", "upload_core_document", "upload_ancillary_document",
   "instantiate_template", "check_compliance_status", "list_required_documents",
   "get_initiative", "update_initiative", "delete_initiative"}

\* C8 as stated: every initiative-scoped operation (the three uploads,
\* instantiate, check, list required, get, update, delete) called with the id
\* of no row answers 404 and writes no file, makes no directory and inserts
\* or changes no row
C8_AlwaysNotFound ==
  [][(response'.op \in InitiativeOps /\ ~Existing(response'.id)) =>
       (response'.code = 404 /\ UNCHANGED Stored)]_vars

\* C8, amended: every initiative-scoped operation called with the id of no row
\* answers 404, except a delete asked by a user who is not an admin, which
\* answers 403; either way it writes no file, makes no directory and inserts
\* or changes no row
C8_NotFoundOrForbidden ==
  [][(response'.op \in InitiativeOps /\ ~Existing(response'.id)) =>
       /\ response'.code =
            IF response'.op = "delete_initiative" /\ response'.role # "admin"
              THEN 403 ELSE 404
       /\ UNCHANGED Stored]_vars

C8_Witness ==
  /\ response.op \in InitiativeOps \ {"delete_initiative"}
  /\ ~Existing(response.id)
  /\ response.code = 404
  /\ Len(documents) > 0
  /\ DOMAIN files # {}

\* what the size check does with a payload that reached it: 50 MiB or less
\* goes on to the store, more is refused with nothing written
SizeRule(contents) ==
  IF contents.size >= MAX_FILE_SIZE + 1
    THEN response'.code = 413 /\ UNCHANGED Stored
    ELSE /\ response'.code # 413
         /\ \E p \in DOMAIN files' : files'[p] = contents

\* C9: at every upload endpoint (legacy, admin, core, ancillary, template with
\* a file) a payload of exactly 50 MiB passes the size check and one of
\* 50 MiB + 1 byte is refused with 413 before any file is written or row
\* inserted; the check comes after the endpoint's lookup of the initiative and
\* its role check, whose refusals write nothing either
C9_SizeBoundary ==
  [][/\ \A i \in DOMAIN initiatives, c \in UploadPayloads :
          (response'.id = i) =>
            /\ upload_document(i, NULL, Plain, c) => SizeRule(c)
            /\ upload_core_document(i, FALSE, NULL, Plain, c) => SizeRule(c)
            /\ upload_ancillary_document(i, NULL, Plain, c) => SizeRule(c)
     /\ \A c \in UploadPayloads :
          (response'.role = "admin") =>
            /\ upload_admin_document("admin", "howto", Plain, c) => SizeRule(c)
            /\ create_document_template("admin", "Business Case", TRUE, Plain, c)
                 => SizeRule(c)
     /\ (response'.code \in {403, 404, 413}) => UNCHANGED Stored]_vars

C9_Witness ==
  /\ response.op = "upload_core_document"
  /\ response.code = 413
  /\ \E d \in DOMAIN documents : documents[d].file_size = MAX_FILE_SIZE
  /\ \E p \in DOMAIN files : files[p].size = MAX_FILE_SIZE

\* C10: the path save_document_file returns is relative to the storage root,
\* lies in the directory the path resolver gives for the same tier arguments,
\* and the file at that path holds exactly the bytes saved
C10_SavedPath ==
  (response.op = "save_document_file" /\ response.code = 200) =>
    LET path == response.body.path
        full == NormPath(Join(UPLOAD_DIR, path))
        target_dir == NormPath(get_document_path(response.body.library_type,
                                                 response.body.category, response.id,
                                                 response.body.is_required))
    IN /\ path # NoPath
       /\ \A n \in DOMAIN path : path[n] # ".."
       /\ IsPrefix(target_dir, full)
       /\ Len(full) = Len(target_dir) + 1
       /\ full \in DOMAIN files
       /\ files[full] = response.body.file_content

C10_Witness ==
  /\ response.op = "save_document_file"
  /\ response.code = 200
  /\ response.body.path = <<"initiatives", "2", "core", "required", "1_a.txt">>
  /\ <<"uploads", "initiatives", "2", "core", "required", "1_a.txt">> \in DOMAIN files
  /\ Cardinality(DOMAIN files) = 1

\* where a stored relative path lies, counted from the repository root
StoredAt(relative_path) == <<"uploads">> \o relative_path

InArchive(p) == Len(p) = 3 /\ SubSeq(p, 1, 2) = <<"uploads", ".archived">>

\* C11: copy_template never changes the template file it copies, and a file a
\* copy produced keeps its content when the template file is archived
\* afterwards and when the same template is copied again, for the same or for
\* another initiative
C11_CopiesIndependent ==
  [][/\ (response'.op = "copy_template_file") =>
          LET source == StoredAt(response'.body.template_path)
          IN source \in DOMAIN files =>
               /\ source \in DOMAIN files' /\ files'[source] = files[source]
               /\ \A p \in DOMAIN files :
                    files[p] = files[source] => (p \in DOMAIN files' /\ files'[p] = files[p])
     /\ (response'.op = "delete_document_file"
           /\ response'.body.path \in TemplatePaths) =>
          \A p \in DOMAIN files \ {StoredAt(response'.body.path)} :
            ~InArchive(p) => (p \in DOMAIN files' /\ files'[p] = files[p])]_vars

C11_Witness ==
  /\ response.op = "delete_document_file"
  /\ response.body.path \in TemplatePaths
  /\ response.body.result
  /\ \E a \in DOMAIN files, p \in DOMAIN files, q \in DOMAIN files :
       /\ InArchive(a)
       /\ SubSeq(p, 1, 3) = <<"uploads", "initiatives", "2">>
       /\ SubSeq(q, 1, 3) = <<"uploads", "initiatives", "3">>
       /\ files[a] = files[p]
       /\ files[a] = files[q]

\* C12: archive of a path with no file answers false and changes nothing; of a
\* path with a file it answers true, the file is gone from its path and its
\* content lies under the archive directory; either way no document row
\* changes, and archiving the same path again answers false
C12_Archive ==
  [][(response'.op = "delete_document_file") =>
       LET relative_path == response'.body.path
           source == StoredAt(relative_path)
       IN /\ documents' = documents
          /\ IF source \in DOMAIN files
               THEN /\ response'.body.result = TRUE
                    /\ source \notin DOMAIN files'
                    /\ \E a \in DOMAIN files' : InArchive(a) /\ files'[a] = files[source]
                    /\ ~delete_document_file(files', dirs', now', relative_path).ok
               ELSE /\ response'.body.result = FALSE
                    /\ UNCHANGED Stored]_vars

C12_Witness ==
  /\ response.op = "delete_document_file"
  /\ response.body.result
  /\ \E d \in DOMAIN documents :
       /\ documents[d].file_path = response.body.path
       /\ documents[d].status = "active"
  /\ StoredAt(response.body.path) \notin DOMAIN files
  /\ \E a \in DOMAIN files : InArchive(a)

\* the directory the layout gives the four arguments
LayoutOf(library_type, category, initiative_id, is_required) ==
  CASE library_type = "admin" /\ category = "policy" -> <<"uploads", "admin", "policies">>
    [] library_type = "admin" /\ category = "template" -> <<"uploads", "admin", "templates">>
    [] library_type = "admin" /\ category = "howto" -> <<"uploads", "admin", "howtos">>
    [] library_type = "admin" /\ category \notin {"policy", "template", "howto"} ->
         <<"uploads", "admin">>
    [] library_type = "core" /\ initiative_id # NoId /\ is_required ->
         <<"uploads", "initiatives", ToString(initiative_id), "core", "required">>
    [] library_type = "core" /\ initiative_id # NoId /\ ~is_required ->
         <<"uploads", "initiatives", ToString(initiative_id), "core", "optional">>
    [] library_type = "ancillary" /\ initiative_id # NoId ->
         <<"uploads", "initiatives", ToString(initiative_id), "ancillary">>
    [] OTHER -> <<"uploads">>

\* C13: the path resolver gives admin with category policy, template or howto
\* that category's admin subdirectory and with any other category the admin
\* directory, core with an initiative id that initiative's core/required or
\* core/optional directory by is_required, ancillary with an initiative id its
\* ancillary directory, and every other input the storage root
C13_Layout ==
  (response.op = "get_document_path") =>
    NormPath(response.body.path)
      = LayoutOf(response.body.library_type, response.body.category, response.id,
                 response.body.is_required)

C13_Witness ==
  /\ response.op = "get_document_path"
  /\ response.body.library_type = "core"
  /\ response.id = 2
  /\ ~response.body.is_required
  /\ NormPath(response.body.path) = <<"uploads", "initiatives", "2", "core", "optional">>

\* the directory chain of an initiative
ChainOf(initiative_id) ==
  LET base == <<"uploads", "initiatives", ToString(initiative_id)>>
  IN {base \o <<"core", "required">>, base \o <<"core", "optional">>,
      base \o <<"ancillary">>}

\* C14: resolving a core or ancillary path for an initiative makes the
\* initiative's whole directory chain on first use; resolving again with the
\* same arguments gives the same path and leaves directories and files as
\* they are
C14_ChainOnce ==
  [][(/\ response'.op = "get_document_path"
      /\ response'.body.library_type \in {"core", "ancillary"}
      /\ response'.id # NoId) =>
       /\ ChainOf(response'.id) \subseteq dirs'
       /\ files' = files
       /\ ChainOf(response'.id) \subseteq dirs => dirs' = dirs
       /\ DocumentPathDirsMade(dirs', response'.body.library_type, response'.id) = dirs'
       /\ get_document_path(response'.body.library_type, response'.body.category,
                            response'.id, response'.body.is_required)
            = response'.body.path]_vars

C14_Witness ==
  /\ response.op = "get_document_path"
  /\ response.body.library_type = "ancillary"
  /\ response.id = 3
  /\ ChainOf(3) \subseteq dirs
  /\ ~(ChainOf(2) \subseteq dirs)
  /\ DOMAIN files # {}

\* an active template with a stored path at which its file lies
TemplateWithFile(template_id) ==
  /\ template_id \in DOMAIN templates
  /\ templates[template_id].is_active
  /\ templates[template_id].file_path # NoPath
  /\ StoredAt(templates[template_id].file_path) \in DOMAIN files

\* what an instantiation with a copied file leaves: one more row, of the core
\* tier, with the template's id and the flag given, its path in the
\* initiative's core/required or core/optional directory, and at that path the
\* template file's content
InstantiatedRow(i, t, q) ==
  /\ Len(documents') = Len(documents) + 1
  /\ SubSeq(documents', 1, Len(documents)) = documents
  /\ LET row == documents'[Len(documents')]
         target == StoredAt(row.file_path)
     IN /\ row.initiative_id = i
        /\ row.library_type = "core"
        /\ row.template_id = t
        /\ row.is_required = q
        /\ row.file_path # NoPath
        /\ SubSeq(target, 1, Len(target) - 1)
             = <<"uploads", "initiatives", ToString(i), "core",
                 IF q THEN "required" ELSE "optional">>
        /\ target \in DOMAIN files'
        /\ files'[target] = files[StoredAt(templates[t].file_path)]

\* C15 as stated: instantiate on an existing initiative with an active
\* template that has a stored file inserts exactly one row (core, the
\* template's id, is_required as given, its path in the initiative's
\* core/required or core/optional directory) and creates exactly one new file
\* at that path, holding the template file's content
C15_OneRowOneNewFile ==
  [][\A i \in InstantiateIds, t \in DOMAIN templates, n \in FileNames, q \in BOOLEAN :
       (/\ response'.op = "instantiate_template"
        /\ response'.id = i
        /\ TemplateWithFile(t)
        /\ instantiate_template(i, t, n, q)) =>
         /\ response'.code = 200
         /\ InstantiatedRow(i, t, q)
         /\ Cardinality(DOMAIN files' \ DOMAIN files) = 1
         /\ DOMAIN files' \ DOMAIN files = {StoredAt(documents'[Len(documents')].file_path)}]_vars

\* what the code keeps of it: with a document name that has no directory part,
\* such an instantiate succeeds, inserts exactly one row as described and
\* leaves at the row's path a file with the template file's content, every
\* other file as it was; the file replaces an earlier one when that stamped
\* name was already written in that directory
InstantiateCopies ==
  [][\A i \in InstantiateIds, t \in DOMAIN templates, q \in BOOLEAN :
       (/\ response'.op = "instantiate_template"
        /\ response'.id = i
        /\ TemplateWithFile(t)
        /\ instantiate_template(i, t, Plain, q)) =>
         /\ response'.code = 200
         /\ InstantiatedRow(i, t, q)
         /\ LET target == StoredAt(documents'[Len(documents')].file_path)
            IN /\ DOMAIN files' = DOMAIN files \cup {target}
               /\ \A p \in DOMAIN files \ {target} : files'[p] = files[p]]_vars

InstantiateCopiesSeen ==
  /\ response.op = "instantiate_template"
  /\ response.code = 200
  /\ Len(documents) = 1
  /\ documents[1].template_id = 1
  /\ documents[1].library_type = "core"
  /\ ~documents[1].is_required
  /\ documents[1].file_path = <<"initiatives", "2", "core", "optional", "1_a.txt">>
  /\ files[StoredAt(documents[1].file_path)] = files[StoredAt(templates[1].file_path)]

\* C16: instantiate on an existing initiative with an active template that has
\* no stored file succeeds, creates no file and inserts exactly one row with
\* the template's id and a null stored path
C16_Placeholder ==
  [][\A i \in InstantiateIds, t \in DOMAIN templates, n \in FileNames, q \in BOOLEAN :
       (/\ response'.op = "instantiate_template"
        /\ response'.id = i
        /\ templates[t].is_active
        /\ templates[t].file_path = NoPath
        /\ instantiate_template(i, t, n, q)) =>
         /\ response'.code = 200
         /\ files' = files
         /\ Len(documents') = Len(documents) + 1
         /\ documents'[Len(documents')].template_id = t
         /\ documents'[Len(documents')].file_path = NoPath]_vars

\* C17: instantiate answers 404 when the template id has no row or the
\* template is not active, and fails when the template's stored file is not in
\* the store; in each case no row is inserted, no file is created and the
\* template stays as it is
C17_TemplateMissing ==
  [][\A i \in InstantiateIds, t \in 1..(Len(templates) + 1), n \in FileNames, q \in BOOLEAN :
       (/\ response'.op = "instantiate_template"
        /\ response'.id = i
        /\ instantiate_template(i, t, n, q)) =>
         /\ (t \notin DOMAIN templates \/ ~templates[t].is_active) =>
              (response'.code = 404 /\ UNCHANGED Stored)
         /\ (/\ t \in DOMAIN templates
             /\ templates[t].is_active
             /\ templates[t].file_path # NoPath
             /\ StoredAt(templates[t].file_path) \notin DOMAIN files) =>
              /\ response'.code \notin {0, 200}
              /\ documents' = documents
              /\ files' = files
              /\ templates' = templates]_vars

C17_Witness ==
  /\ response.op = "instantiate_template"
  /\ response.code = 500
  /\ documents = <<>>
  /\ \E t \in DOMAIN templates :
       /\ templates[t].is_active
       /\ templates[t].file_path # NoPath
       /\ StoredAt(templates[t].file_path) \notin DOMAIN files
  /\ \A p \in DOMAIN files : InArchive(p)

\* C18: whatever uploads, instantiations and migration have happened, every
\* admin row has no initiative and every core or ancillary row has the id of
\* an initiative of the table
C18_TierReference ==
  \A k \in DOMAIN documents :
    /\ documents[k].library_type = "admin" => documents[k].initiative_id = NoId
    /\ documents[k].library_type \in {"core", "ancillary"} =>
         /\ documents[k].initiative_id # NoId
         /\ Existing(documents[k].initiative_id)

\* a row of the old table after the migration
C18_Witness ==
  /\ schema = "three_tier"
  /\ response.op = "migrate_documents_table"
  /\ \E k \in DOMAIN documents :
       /\ documents[k].library_type = "ancillary"
       /\ documents[k].initiative_id # NoId
       /\ Len(documents[k].file_path) = 1

\* C19: no step removes an initiative row; a successful delete leaves the row
\* with status 'deleted'; get by id answers with the row whatever its status;
\* a listing with the default status filter and the CSV export hold no row
\* whose status is 'deleted'
C19_SoftDelete ==
  [][/\ Len(initiatives') >= Len(initiatives)
     /\ (response'.op = "delete_initiative" /\ response'.code = 200) =>
          /\ response'.id \in DOMAIN initiatives
          /\ initiatives'[response'.id].status = "deleted"
     /\ (response'.op = "get_initiative" /\ response'.id \in DOMAIN initiatives) =>
          /\ response'.code = 200
          /\ response'.body = initiatives[response'.id]
     /\ (response'.op = "list_initiatives" /\ response'.body.status = "active") =>
          \A k \in DOMAIN response'.body.ids :
            initiatives[response'.body.ids[k]].status # "deleted"
     /\ response'.op = "export_initiatives_csv" =>
          \A k \in DOMAIN response'.body.ids :
            initiatives[response'.body.ids[k]].status # "deleted"]_vars

\* the default listing, with a deleted initiative left out of it
C19_Witness ==
  /\ response.op = "list_initiatives"
  /\ response.body.status = "active"
  /\ response.body.skip = 0
  /\ response.body.limit = 100
  /\ Len(response.body.ids) = 2
  /\ initiatives[2].status = "deleted"
  /\ \A k \in DOMAIN response.body.ids : response.body.ids[k] # 2

\* C20: a delete requested by a user who is not an admin answers 403 and
\* leaves the initiatives as they were, and no request of a user who is not an
\* admin turns an initiative's status into 'deleted'
C20_AdminOnly ==
  [][/\ (response'.op = "delete_initiative" /\ response'.role # "admin") =>
          (response'.code = 403 /\ initiatives' = initiatives)
     /\ \A i \in DOMAIN initiatives :
          (initiatives[i].status # "deleted" /\ initiatives'[i].status = "deleted") =>
            response'.role = "admin"]_vars

\* the fields of an initiative a request can set
Settable == {"stage", "priority", "status"}

\* C21: an update of an existing initiative sets exactly the fields given with
\* a value, refreshes updated_at when there is one, and keeps every other
\* field, the id and created_at and every other row; and whatever step changes
\* a row leaves its updated_at at the time of the step, not earlier than before
C21_PartialUpdate ==
  [][/\ \A i \in UpdateIds, patch \in Patches :
          (/\ response'.op = "update_initiative"
           /\ response'.id = i
           /\ i \in DOMAIN initiatives
           /\ update_initiative("contributor", i, patch)) =>
            /\ response'.code = 200
            /\ DOMAIN initiatives' = DOMAIN initiatives
            /\ \A j \in DOMAIN initiatives \ {i} : initiatives'[j] = initiatives[j]
            /\ \A f \in Settable :
                 initiatives'[i][f] = IF patch[f] # NULL THEN patch[f] ELSE initiatives[i][f]
            /\ initiatives'[i].created_at = initiatives[i].created_at
            /\ initiatives'[i].updated_at =
                 IF \E f \in Settable : patch[f] # NULL THEN now ELSE initiatives[i].updated_at
     /\ \A i \in DOMAIN initiatives :
          initiatives'[i] # initiatives[i] =>
            /\ initiatives'[i].updated_at = now
            /\ initiatives'[i].updated_at >= initiatives[i].updated_at
     /\ (response'.op = "delete_initiative" /\ response'.code = 200) =>
          initiatives'[response'.id].updated_at = now]_vars

\* a later update that set the stage alone
C21_Witness ==
  /\ response.op = "update_initiative"
  /\ response.code = 200
  /\ response.id = 2
  /\ initiatives[2].stage = "pilot"
  /\ initiatives[2].priority = "medium"
  /\ initiatives[2].status = "active"
  /\ initiatives[2].created_at = 0
  /\ initiatives[2].updated_at = now
  /\ now > 1

\* the rows that have every filter value of a listing, each filter that is in
\* the query taken as it stands
MatchSupplied(body) ==
  {i \in DOMAIN initiatives :
     /\ body.stage # NULL => initiatives[i].stage = body.stage
     /\ body.priority # NULL => initiatives[i].priority = body.priority
     /\ initiatives[i].status = body.status}

\* the same with a filter of empty value taken as not supplied
MatchNonEmpty(body) ==
  {i \in DOMAIN initiatives :
     /\ (body.stage # NULL /\ body.stage # "") => initiatives[i].stage = body.stage
     /\ (body.priority # NULL /\ body.priority # "") =>
          initiatives[i].priority = body.priority
     /\ body.status # "" => initiatives[i].status = body.status}

\* i may stand before j in the order asked for
MayPrecede(i, j, body) ==
  IF body.sort_order = "asc"
    THEN SortKey(i, body.sort_by) <= SortKey(j, body.sort_by)
    ELSE SortKey(i, body.sort_by) >= SortKey(j, body.sort_by)

\* body.ids is the window skip+1 .. skip+limit of some ordering of M by the
\* sort asked for
WindowOf(M, body) ==
  LET ids == body.ids
      shown == {ids[k] : k \in DOMAIN ids}
      rest == M \ shown
      ahead == IF body.skip < Cardinality(M) THEN body.skip ELSE Cardinality(M)
  IN /\ shown \subseteq M
     /\ Cardinality(shown) = Len(ids)
     /\ Len(ids) <= body.limit
     /\ Len(ids) = IF Cardinality(M) - ahead < body.limit
                     THEN Cardinality(M) - ahead ELSE body.limit
     /\ \A a, b \in DOMAIN ids : a < b => MayPrecede(ids[a], ids[b], body)
     /\ \E before \in SUBSET rest :
          /\ Cardinality(before) = ahead
          /\ \A i \in before, j \in shown : MayPrecede(i, j, body)
          /\ \A i \in shown, j \in rest \ before : MayPrecede(i, j, body)

\* C22 as stated: a listing returns the rows that satisfy every filter of the
\* query (status 'active' when the query has none), in the order asked for,
\* cut to the positions skip .. skip+limit-1
C22_ListingSupplied ==
  response.op = "list_initiatives" => WindowOf(MatchSupplied(response.body), response.body)

\* C22, amended: a listing returns the rows that satisfy every filter of the
\* query that has a non-empty value (status 'active' when the query has none;
\* a filter sent with an empty value is ignored), in the order asked for, cut
\* to the positions skip .. skip+limit-1; every row returned satisfies those
\* filters and at most limit rows are returned
C22_ListingNonEmpty ==
  response.op = "list_initiatives" => WindowOf(MatchNonEmpty(response.body), response.body)

\* the second of three discovery initiatives by priority
C22_Witness ==
  /\ response.op = "list_initiatives"
  /\ response.body.stage = "discovery"
  /\ response.body.status = "active"
  /\ response.body.sort_by = "priority"
  /\ response.body.skip = 1
  /\ response.body.limit = 1
  /\ Len(response.body.ids) = 1
  /\ Cardinality(MatchNonEmpty(response.body)) = 2
  /\ initiatives[response.body.ids[1]].priority = "medium"

\* C23: the rows of list_required are one per requirement that applies to the
\* initiative's stage; a row is marked uploaded exactly when a qualifying
\* document is typed as the requirement, which is exactly when the compliance
\* check does not count the name missing; and it is marked as having a template
\* exactly when the requirement's template is in the templates table
C23_RequiredRows ==
  (response.op = "list_required_documents" /\ response.code = 200) =>
    LET i == response.id
        rows == response.body.rows
    IN /\ Cardinality(rows) = Cardinality(Applicable(i))
       /\ \A k \in Applicable(i) :
            \E row \in rows :
              /\ row.name = requirements[k].name
              /\ row.is_uploaded = (requirements[k].name \in QualifyingTypes(i))
              /\ row.is_uploaded = (requirements[k].name \notin Compliance(i).missing)
              /\ row.has_template = (requirements[k].template_id \in DOMAIN templates)

\* C24: a request to an endpoint behind the token check that carries no token
\* or one login did not issue is answered 401 and changes nothing; a login with
\* an unknown username or a wrong password is answered 401, carries no token
\* and leaves last_login as it was
C24_Unauthorized ==
  [][/\ \A token \in ForeignTokens, endpoint \in AuthEndpoints :
          (response'.op = endpoint /\ api_request(token, endpoint)) =>
            /\ response'.code = 401
            /\ UNCHANGED <<Stored, outside>>
     /\ \A l \in Logins :
          (/\ response'.op = "login"
           /\ login(l[1], l[2])
           /\ \/ l[1] \notin DOMAIN users
              \/ users[l[1]].hashed_password # get_password_hash(l[2])) =>
            /\ response'.code = 401
            /\ response'.body = NoBody
            /\ users' = users
            /\ UNCHANGED Stored]_vars

\* a delete refused for its token while the admin is logged in
C24_Witness ==
  /\ response.op = "delete_initiative"
  /\ response.code = 401
  /\ users["admin"].last_login # NoLogin
  /\ initiatives[2].status = "active"

\* ------------------------------------------- uploads and copies step by step
\* The statements of upload_core_document and instantiate_template taken one at
\* a time, as when several worker processes serve requests side by side. pending
\* holds what each request has in hand between its statements:
\*   pc "named"    the directory is resolved and the unique name generated
\*   pc "written"  open/write or copy2 has returned
\*   pc "inserted" execute_insert has returned and the request is answered
\*   pc "failed"   the write or the insert raised
\*   pc "stopped"  the process stopped before its next statement
NoPayload == [data |-> "", size |-> 0]

Request(op, initiative_id, is_required, filename, contents, template_id, source_path, target_dir, timestamp) ==
  [op |-> op, pc |-> "named", initiative_id |-> initiative_id,
   is_required |-> is_required, filename |-> filename, contents |-> contents,
   template_id |-> template_id, source_path |-> source_path,
   target_dir |-> target_dir, timestamp |-> timestamp,
   file_path |-> Join(target_dir, UniqueName(timestamp, filename)),
   path |-> NoPath]

StepDone(op, r) == response' = Respond("step", 0, NoId, NULL, NoBody)

\* upload_core_document up to the name: the checks, get_document_path, timestamp
begin_upload_core_document(initiative_id, is_required, filename, contents) ==
  /\ Len(pending) < MaxRequests
  /\ Existing(initiative_id)
  /\ ~TooLarge(contents)
  /\ dirs' = DocumentPathDirsMade(dirs, "core", initiative_id)
  /\ pending' = Append(pending,
       Request("upload_core_document", initiative_id, is_required, filename, contents,
               NoId, NoPath,
               get_document_path("core", NULL, initiative_id, is_required), now))
  /\ StepDone("begin_upload_core_document", Len(pending) + 1)
  /\ UNCHANGED <<schema, initiatives, documents, templates, requirements, files, now>>
  /\ UNCHANGED <<users, user_api_keys, db_file, backups, migrators>>

\* instantiate_template up to the name: the checks, the source test of
\* copy_template_file, get_initiative_directories, timestamp
begin_instantiate_template(initiative_id, template_id, document_name, is_required) ==
  /\ Len(pending) < MaxRequests
  /\ Existing(initiative_id)
  /\ ActiveTemplate(template_id)
  /\ templates[template_id].file_path # NoPath
  /\ Exists(files, dirs, Join(UPLOAD_DIR, templates[template_id].file_path))
  /\ dirs' = InitiativeDirsMade(dirs, initiative_id)
  /\ pending' = Append(pending,
       Request("instantiate_template", initiative_id, is_required, document_name,
               NoPayload, template_id,
               Join(UPLOAD_DIR, templates[template_id].file_path),
               IF is_required
                 THEN get_initiative_directories(initiative_id).core_required
                 ELSE get_initiative_directories(initiative_id).core_optional,
               now))
  /\ StepDone("begin_instantiate_template", Len(pending) + 1)
  /\ UNCHANGED <<schema, initiatives, documents, templates, requirements, files, now>>
  /\ UNCHANGED <<users, user_api_keys, db_file, backups, migrators>>

\* what the write puts into the file: the uploaded bytes, or the source's bytes
\* as copy2 finds them
Brought(q) ==
  IF q.op = "upload_core_document"
    THEN Written(q.contents)
    ELSE files[Landing(dirs, q.source_path)]

\* open(file_path, "wb") / f.write, or shutil.copy2(source_path, target_path)
write_file(r) ==
  LET q == pending[r]
      target == Landing(dirs, q.file_path)
      can == /\ CanCreate(dirs, q.file_path)
             /\ target \notin dirs
             /\ q.op = "instantiate_template" => Landing(dirs, q.source_path) \in DOMAIN files
  IN /\ r \in DOMAIN pending
     /\ q.pc = "named"
     /\ IF can
          THEN /\ files' = WriteFile(files, target, Brought(q))
               /\ pending' = [pending EXCEPT ![r].pc = "written",
                                             ![r].contents = Brought(q),
                                             ![r].path = RelPath(q.file_path, UPLOAD_DIR)]
          ELSE /\ files' = files
               /\ pending' = [pending EXCEPT ![r].pc = "failed"]
     /\ StepDone("write_file", r)
     /\ UNCHANGED <<schema, initiatives, documents, templates, requirements, dirs, now>>
     /\ UNCHANGED <<users, user_api_keys, db_file, backups, migrators>>

\* the row the handler inserts for its request
RequestRow(q) ==
  IF q.op = "upload_core_document"
    THEN NewDocument(q.initiative_id, q.filename, RelPath(q.file_path, UPLOAD_DIR),
                     q.contents.size, NULL, "core", NULL, q.is_required, NoId)
    ELSE NewDocument(q.initiative_id, q.filename, RelPath(q.file_path, UPLOAD_DIR),
                     0, NULL, "core", NULL, q.is_required, q.template_id)

\* the handler reaches execute_insert with the path the write returned
InsertReadyUnwritten(q) == q.pc \in {"named", "written"}

InsertReady(q) == q.pc = "written"

\* execute_insert("INSERT INTO documents ...") and the answer
insert_row(r) ==
  /\ r \in DOMAIN pending
  /\ InsertReady(pending[r])
  /\ IF InsertAccepted(RequestRow(pending[r]))
       THEN /\ documents' = Append(documents, RequestRow(pending[r]))
            /\ pending' = [pending EXCEPT ![r].pc = "inserted"]
       ELSE /\ documents' = documents
            /\ pending' = [pending EXCEPT ![r].pc = "failed"]
  /\ StepDone("insert_row", r)
  /\ UNCHANGED <<schema, initiatives, templates, requirements, dirs, files, now>>
  /\ UNCHANGED <<users, user_api_keys, db_file, backups, migrators>>

\* the worker stops between two statements of the request
stop_request(r) ==
  /\ r \in DOMAIN pending
  /\ pending[r].pc \in {"named", "written"}
  /\ pending' = [pending EXCEPT ![r].pc = "stopped"]
  /\ StepDone("stop_request", r)
  /\ UNCHANGED <<schema, initiatives, documents, templates, requirements, dirs, files, now>>
  /\ UNCHANGED <<users, user_api_keys, db_file, backups, migrators>>

Other == <<"b.txt">>

\* the uploads sent: two contents for one place and name, and one other name;
\* the copies go to the other place
StepUploads ==
  {<<TRUE, Plain, c>> : c \in StorePayloads} \cup {<<TRUE, Other, Small>>}

NextSteps ==
  \/ /\ templates = <<>>
     /\ create_document_template("admin", "Business Case", TRUE, Plain, Small)
  \/ \E i \in InstantiateIds, u \in StepUploads :
       begin_upload_core_document(i, u[1], u[2], u[3])
  \/ \E i \in InstantiateIds, t \in DOMAIN templates :
       begin_instantiate_template(i, t, Plain, FALSE)
  \/ \E r \in DOMAIN pending : write_file(r)
  \/ \E r \in DOMAIN pending : insert_row(r)
  \/ \E r \in DOMAIN pending : stop_request(r)
  \/ Tick

SpecSteps == InitMigrated /\ [][NextSteps]_vars

\* the two requests were given one directory, one filename and one timestamp
SameTarget(a, b) ==
  /\ a.target_dir = b.target_dir
  /\ a.filename = b.filename
  /\ a.timestamp = b.timestamp

\* the request's write has returned a stored path
Returned(q) == q.path # NoPath

\* the rows of the documents table that carry the stored path
RowsAt(path) == {i \in DOMAIN documents : documents[i].file_path = path}

PathsAgree ==
  \A r1 \in DOMAIN pending, r2 \in DOMAIN pending :
    (r1 # r2 /\ Returned(pending[r1]) /\ Returned(pending[r2])) =>
      /\ (pending[r1].path = pending[r2].path) <=> SameTarget(pending[r1], pending[r2])
      /\ (/\ pending[r1].path = pending[r2].path
          /\ pending[r1].pc = "inserted"
          /\ pending[r2].pc = "inserted") =>
           /\ Cardinality(RowsAt(pending[r1].path)) >= 2
           /\ StoredAt(pending[r1].path) \in DOMAIN files

WriteReplaces ==
  \A r \in DOMAIN pending :
    (pending[r].pc = "named" /\ pending'[r].pc \in {"written", "failed"}) =>
      LET target == Landing(dirs, pending[r].file_path)
      IN /\ \A p \in DOMAIN files \ {target} : p \in DOMAIN files' /\ files'[p] = files[p]
         /\ (\E o \in DOMAIN pending :
               o # r /\ Returned(pending[o]) /\ SameTarget(pending[o], pending[r])) =>
              /\ pending'[r].pc = "written"
              /\ files'[target] = pending'[r].contents

\* C25: two saves or template copies, their statements interleaved in any way,
\* return the same stored path exactly when they were given the same target
\* directory, the same filename and the same timestamp; then the later write
\* succeeds and leaves its own content in the file, both requests insert their
\* row and both rows carry the one path; a write never changes a file at any
\* other path
C25_SamePath == []PathsAgree /\ [][WriteReplaces]_vars

\* two uploads answered with one path, the file holding what the first of them
\* brought, written after the second's
C25_Witness ==
  /\ Len(pending) >= 2
  /\ pending[1].pc = "inserted"
  /\ pending[2].pc = "inserted"
  /\ pending[1].path = pending[2].path
  /\ pending[1].contents # pending[2].contents
  /\ files[StoredAt(pending[1].path)] = pending[1].contents

NotW_C25_Witness == ~(C25_Witness)

RowHasFile ==
  \A i \in DOMAIN documents :
    documents[i].file_path # NoPath => StoredAt(documents[i].file_path) \in DOMAIN files

WriteBeforeInsert ==
  \A r \in DOMAIN pending :
    (pending[r].pc # "inserted" /\ pending'[r].pc = "inserted") =>
      /\ pending[r].pc = "written"
      /\ StoredAt(pending[r].path) \in DOMAIN files
      /\ documents' = Append(documents, RequestRow(pending[r]))
      /\ documents'[Len(documents')].file_path = pending[r].path

\* C27: an upload or instantiate request inserts its row only after its write
\* or copy has returned, so with no archive in play every row with a stored
\* path has a file at that path, whatever step a request stopped or failed at
C27_WriteFirst == []RowHasFile /\ [][WriteBeforeInsert]_vars

\* a request stopped after its write: its file is in the store and no row
\* carries its path, while the other request has inserted its row
C27_Witness ==
  /\ Len(pending) >= 2
  /\ pending[1].pc = "stopped"
  /\ Returned(pending[1])
  /\ StoredAt(pending[1].path) \in DOMAIN files
  /\ RowsAt(pending[1].path) = {}
  /\ pending[2].pc = "inserted"

NotW_C27_Witness == ~(C27_Witness)

\* the files under the archive directory
Archived(fs) == {p \in DOMAIN fs : p[2] = ".archived"}

\* C26: archival never destroys a stored document: whatever is archived next,
\* every file already under the archive directory stays there with its content,
\* also when the next file has the same base name and goes in the same second
C26_ArchiveKeeps ==
  [][\A p \in Archived(files) : p \in Archived(files') /\ files'[p] = files[p]]_vars

\* ------------------------------------------------------- the migration tool
\* A DatabaseMigrator in migrators: its backup_path, how far its run_migration
\* has come (pc), the force_fresh it was called with, whether it has copied the
\* database to its backup_path and what it copied, and what its last call
\* returned.

\* f"{db_path}.backup_{datetime.now().strftime('%Y%m%d_%H%M%S')}"
BackupPath(t) == "database.db.backup_" \o ArchiveStamp(t)

\* DatabaseMigrator(db_path)
NoDatabase == [exists |-> FALSE, rows |-> FALSE, scripts |-> <<>>]

DatabaseMigrator(t) ==
  [backup_path |-> BackupPath(t), pc |-> "idle", force_fresh |-> FALSE,
   backed |-> FALSE, saved |-> NoDatabase, result |-> FALSE]

MigrationDone(op, m, result) ==
  response' = Respond(op, 0, NoId, NULL, [migrator |-> m, result |-> result])

MigrationFrame ==
  /\ UNCHANGED <<schema, initiatives, documents, templates, requirements, dirs, files, now>>
  /\ UNCHANGED <<users, user_api_keys, pending>>

\* migrator = DatabaseMigrator(args.db_path)
new_migrator ==
  /\ Len(migrators) < MaxMigrators
  /\ migrators' = Append(migrators, DatabaseMigrator(now))
  /\ MigrationDone("DatabaseMigrator", Len(migrators) + 1, TRUE)
  /\ UNCHANGED <<db_file, backups>>
  /\ MigrationFrame

\* check_existing_data: any(count > 0) over initiatives, documents, users
has_existing_data == db_file.exists /\ db_file.rows

\* run_migration's branch after the counts are read
StageWithoutBackup(force_fresh, existing) == IF force_fresh \/ ~existing THEN "fresh" ELSE "schema"

Stage(force_fresh, existing) == IF force_fresh \/ ~existing THEN "fresh" ELSE "backup"

\* run_migration up to its branch: validate_prerequisites, check_existing_data;
\* a migrator runs it once, as main does
run_migration(m, force_fresh) ==
  /\ m \in DOMAIN migrators
  /\ migrators[m].pc = "idle"
  /\ migrators' = [migrators EXCEPT ![m].pc = Stage(force_fresh, has_existing_data),
                                    ![m].force_fresh = force_fresh,
                                    ![m].result = FALSE]
  /\ MigrationDone("run_migration", m, FALSE)
  /\ UNCHANGED <<db_file, backups>>
  /\ MigrationFrame

\* create_fresh_database: os.remove, then schema.sql and seed_data.sql on a new
\* file; whether the seed fills initiatives, documents or users is open
create_fresh_database(m, seeded) ==
  /\ m \in DOMAIN migrators
  /\ migrators[m].pc = "fresh"
  /\ db_file' = [exists |-> TRUE, rows |-> seeded, scripts |-> <<"schema.sql", "seed_data.sql">>]
  /\ migrators' = [migrators EXCEPT ![m].pc = "done", ![m].result = TRUE]
  /\ MigrationDone("create_fresh_database", m, TRUE)
  /\ UNCHANGED backups
  /\ MigrationFrame

\* create_backup: shutil.copy2(db_path, backup_path); copied is false when the
\* copy raises. A failed backup ends run_migration with False.
create_backup(m, copied) ==
  /\ m \in DOMAIN migrators
  /\ migrators[m].pc = "backup"
  /\ IF db_file.exists /\ copied
       THEN /\ backups' = WriteFile(backups, migrators[m].backup_path, db_file)
            /\ migrators' = [migrators EXCEPT ![m].pc = "schema", ![m].backed = TRUE,
                                              ![m].saved = db_file]
       ELSE /\ backups' = backups
            /\ migrators' = [migrators EXCEPT ![m].pc = "done", ![m].result = FALSE]
  /\ MigrationDone("create_backup", m, db_file.exists /\ copied)
  /\ UNCHANGED db_file
  /\ MigrationFrame

\* migrate_existing_data, first half: execute_sql_file(conn, schema_sql)
execute_schema_sql(m) ==
  /\ m \in DOMAIN migrators
  /\ migrators[m].pc = "schema"
  /\ db_file' = [db_file EXCEPT !.exists = TRUE, !.scripts = Append(@, "schema.sql")]
  /\ migrators' = [migrators EXCEPT ![m].pc = "migration"]
  /\ MigrationDone("execute_schema_sql", m, TRUE)
  /\ UNCHANGED backups
  /\ MigrationFrame

\* migrate_existing_data, second half: execute_sql_file(conn, migration_sql) and
\* verify_migration, whose outcome run_migration returns
execute_migration_sql(m, verified) ==
  /\ m \in DOMAIN migrators
  /\ migrators[m].pc = "migration"
  /\ db_file' = [db_file EXCEPT !.scripts = Append(@, "migration.sql")]
  /\ migrators' = [migrators EXCEPT ![m].pc = "done", ![m].result = verified]
  /\ MigrationDone("execute_migration_sql", m, verified)
  /\ UNCHANGED backups
  /\ MigrationFrame

\* what rollback_migration does for a migrator with the backup path given
Rollback(op, m, backup_path) ==
  /\ IF backup_path \in DOMAIN backups
       THEN db_file' = backups[backup_path]
       ELSE db_file' = db_file
  /\ MigrationDone(op, m, backup_path \in DOMAIN backups)
  /\ UNCHANGED backups
  /\ MigrationFrame

\* rollback_migration called on a migrator that is not inside run_migration
rollback_migration(m) ==
  /\ m \in DOMAIN migrators
  /\ migrators[m].pc \in {"idle", "done"}
  /\ migrators' = [migrators EXCEPT ![m].result = migrators[m].backup_path \in DOMAIN backups]
  /\ Rollback("rollback_migration", m, migrators[m].backup_path)

\* main with --rollback: a new DatabaseMigrator, then its rollback_migration
main_rollback ==
  /\ Len(migrators) < MaxMigrators
  /\ migrators' = Append(migrators,
       [DatabaseMigrator(now) EXCEPT !.result = BackupPath(now) \in DOMAIN backups])
  /\ Rollback("main_rollback", Len(migrators) + 1, BackupPath(now))

NextMigration ==
  \/ new_migrator
  \/ \E m \in DOMAIN migrators, f \in BOOLEAN : run_migration(m, f)
  \/ \E m \in DOMAIN migrators, r \in BOOLEAN : create_fresh_database(m, r)
  \/ \E m \in DOMAIN migrators, c \in BOOLEAN : create_backup(m, c)
  \/ \E m \in DOMAIN migrators : execute_schema_sql(m)
  \/ \E m \in DOMAIN migrators, v \in BOOLEAN : execute_migration_sql(m, v)
  \/ \E m \in DOMAIN migrators : rollback_migration(m)
  \/ main_rollback
  \/ Tick

SpecMigration == Init /\ [][NextMigration]_vars

\* the step is one of migrator m's run_migration
RunStep(m) == m \in DOMAIN migrators /\ migrators'[m].pc # migrators[m].pc

BackupFirst ==
  \A m \in DOMAIN migrators :
    /\ (/\ RunStep(m)
        /\ migrators[m].pc = "idle"
        /\ has_existing_data
        /\ ~migrators'[m].force_fresh) =>
         /\ migrators'[m].pc = "backup"
         /\ db_file' = db_file
    /\ (RunStep(m) /\ migrators[m].pc = "backup") =>
         /\ db_file' = db_file
         /\ IF migrators'[m].pc = "done"
              THEN ~migrators'[m].result /\ backups' = backups
              ELSE /\ migrators'[m].pc = "schema"
                   /\ backups'[migrators[m].backup_path] = db_file
    /\ (RunStep(m) /\ migrators[m].pc \in {"schema", "migration"}) =>
         /\ migrators[m].backed
         /\ migrators[m].backup_path \in DOMAIN backups

\* C28: run_migration on a database that holds rows, force_fresh false, goes to
\* create_backup with the database untouched and runs schema.sql and
\* migration.sql only after the backup was copied; when the copy fails it
\* returns False and the database file is as it was
C28_BackupFirst == [][BackupFirst]_vars

\* one run stopped at its failed backup with the legacy database untouched,
\* another backed the legacy database up and migrated it
C28_Witness ==
  /\ Len(migrators) >= 2
  /\ migrators[1].pc = "done" /\ ~migrators[1].backed /\ ~migrators[1].force_fresh
  /\ migrators[2].pc = "done" /\ migrators[2].backed
  /\ migrators[2].saved = LegacyDatabase
  /\ db_file.scripts = <<"schema.sql", "migration.sql">>

\* migrator m has backed up and migrated the database, and no other has run
OnlyRun(m) ==
  /\ migrators[m].backed
  /\ migrators[m].pc = "done"
  /\ \A o \in DOMAIN migrators \ {m} : migrators[o].pc = "idle"

\* rollback_migration on the migrator that ran restores what it saved
RollbackSameMigrator ==
  [][\A m \in DOMAIN migrators :
       (/\ OnlyRun(m)
        /\ response'.op = "rollback_migration"
        /\ response'.body.migrator = m) =>
         /\ response'.body.result
         /\ db_file' = migrators[m].saved]_vars

\* C29: once run_migration has backed up and migrated the database, a rollback
\* puts the pre-migration content back, called on the same DatabaseMigrator or
\* through --rollback, which builds a new one
C29_RollbackRestores ==
  [][\A m \in DOMAIN migrators :
       (/\ OnlyRun(m)
        /\ \/ response'.op = "main_rollback"
           \/ response'.op = "rollback_migration" /\ response'.body.migrator = m) =>
         /\ response'.body.result
         /\ db_file' = migrators[m].saved]_vars

NotW_C28_Witness == ~(C28_Witness)

\* ------------------------------------------------------------ API key store
\* user_api_keys holds rows [user_id, encrypted_claude_key]. A setup request is
\* taken statement by statement, as when worker processes serve requests side
\* by side: every execute_one / execute_insert / execute_update opens its own
\* connection and commits on its own.
\*   pc "validated"  validate_claude_api_key has accepted the key
\*   pc "selected"   store_user_api_key has read whether the user has a row
\*   pc "answered"   the request is answered with code

encrypt_api_key(api_key) == <<"fernet", api_key>>
decrypt_api_key(encrypted_key) == encrypted_key[2]

\* a key the test call accepts, and one it refuses
ValidKeys == {"sk-1", "sk-2"}
InvalidKey == "sk-bad"

validate_claude_api_key(api_key) == api_key \in ValidKeys

\* SELECT ... FROM user_api_keys WHERE user_id = ?
KeyRows(table, user_id) == {i \in DOMAIN table : table[i].user_id = user_id}

\* get_user_api_key: the decrypted key of the user's row, NULL without one
get_user_api_key(table, user_id) ==
  IF KeyRows(table, user_id) = {}
    THEN NULL
    ELSE decrypt_api_key(table[CHOOSE i \in KeyRows(table, user_id) : TRUE].encrypted_claude_key)

KeyFrame ==
  /\ UNCHANGED <<schema, initiatives, documents, templates, requirements, dirs, files, now>>
  /\ UNCHANGED <<users, db_file, backups, migrators>>

KeyAnswer(op, code, user_id, body) == response' = Respond(op, code, NoId, user_id, body)

\* POST /api/chat/setup up to store_user_api_key; a refused key is answered 400
setup_claude_api_key(user_id, api_key) ==
  /\ Len(pending) < MaxRequests
  /\ IF validate_claude_api_key(api_key)
       THEN /\ pending' = Append(pending, [user_id |-> user_id, api_key |-> api_key,
                                           pc |-> "validated", existing |-> FALSE,
                                           code |-> 0])
            /\ KeyAnswer("setup_claude_api_key", 0, user_id, NoBody)
       ELSE /\ pending' = pending
            /\ KeyAnswer("setup_claude_api_key", 400, user_id, NoBody)
  /\ UNCHANGED user_api_keys
  /\ KeyFrame

\* store_user_api_key: existing = execute_one("SELECT id FROM user_api_keys ...")
select_existing(r) ==
  /\ r \in DOMAIN pending
  /\ pending[r].pc = "validated"
  /\ pending' = [pending EXCEPT ![r].pc = "selected",
                                ![r].existing = KeyRows(user_api_keys, pending[r].user_id) # {}]
  /\ KeyAnswer("select_existing", 0, pending[r].user_id, NoBody)
  /\ UNCHANGED user_api_keys
  /\ KeyFrame

\* UPDATE user_api_keys SET encrypted_claude_key = ? WHERE user_id = ?
KeyUpdated(table, user_id, api_key) ==
  [i \in DOMAIN table |->
     IF table[i].user_id = user_id
       THEN [table[i] EXCEPT !.encrypted_claude_key = encrypt_api_key(api_key)]
       ELSE table[i]]

\* user_id TEXT UNIQUE NOT NULL: the INSERT raises when the user has a row
InsertRaises(table, user_id) == KeyRows(table, user_id) # {}

\* store_user_api_key: the UPDATE or the INSERT, and the endpoint's answer:
\* 500 when the statement raised, 200 otherwise
store_user_api_key(r) ==
  LET q == pending[r]
      raised == ~q.existing /\ InsertRaises(user_api_keys, q.user_id)
  IN /\ r \in DOMAIN pending
     /\ q.pc = "selected"
     /\ user_api_keys' =
          IF q.existing THEN KeyUpdated(user_api_keys, q.user_id, q.api_key)
          ELSE IF raised THEN user_api_keys
          ELSE Append(user_api_keys,
                      [user_id |-> q.user_id,
                       encrypted_claude_key |-> encrypt_api_key(q.api_key)])
     /\ pending' = [pending EXCEPT ![r].pc = "answered",
                                   ![r].code = IF raised THEN 500 ELSE 200]
     /\ KeyAnswer("store_user_api_key", IF raised THEN 500 ELSE 200, q.user_id,
                  [request |-> r])
     /\ KeyFrame

\* GET /api/chat/status
get_chat_status(user_id) ==
  /\ KeyAnswer("get_chat_status", 200, user_id,
               [connected |-> get_user_api_key(user_api_keys, user_id) # NULL])
  /\ UNCHANGED <<user_api_keys, pending>>
  /\ KeyFrame

\* DELETE FROM user_api_keys WHERE user_id = ?
KeyDeleted(table, user_id) == SelectSeq(table, LAMBDA row : row.user_id # user_id)

\* DELETE /api/chat/disconnect
disconnect_claude(user_id) ==
  /\ user_api_keys' = KeyDeleted(user_api_keys, user_id)
  /\ KeyAnswer("disconnect_claude", 200, user_id, NoBody)
  /\ UNCHANGED pending
  /\ KeyFrame

KeyUsers == {"admin", "reviewer"}

NextKeys ==
  \/ \E u \in KeyUsers, k \in ValidKeys \cup {InvalidKey} : setup_claude_api_key(u, k)
  \/ \E r \in DOMAIN pending : select_existing(r)
  \/ \E r \in DOMAIN pending : store_user_api_key(r)
  \/ \E u \in KeyUsers : get_chat_status(u)
  \/ \E u \in KeyUsers : disconnect_claude(u)

SpecKeys == InitMigrated /\ [][NextKeys]_vars

OneRowPerUser == \A u \in KeyUsers : Cardinality(KeyRows(user_api_keys, u)) <= 1

\* the step answers setup request r
SetupAnswered(r) == pending[r].pc = "selected" /\ pending'[r].pc = "answered"

SetupSucceeds ==
  \A r \in DOMAIN pending :
    SetupAnswered(r) =>
      /\ pending'[r].code = 200
      /\ get_user_api_key(user_api_keys', pending[r].user_id) = pending[r].api_key

KeyChangesOnlyThen ==
  \A u \in KeyUsers :
    get_user_api_key(user_api_keys', u) # get_user_api_key(user_api_keys, u) =>
      \/ \E r \in DOMAIN pending : SetupAnswered(r) /\ pending[r].user_id = u
      \/ /\ response'.op = "disconnect_claude"
         /\ response'.role = u
         /\ get_user_api_key(user_api_keys', u) = NULL

\* C30: whatever the interleaving of setup, status and disconnect requests,
\* user_api_keys has at most one row per user, every setup with a valid key is
\* answered with success, and the stored key is the one of the latest completed
\* setup until a disconnect removes it
C30_OneKeyPerUser == []OneRowPerUser /\ [][SetupSucceeds /\ KeyChangesOnlyThen]_vars

====
